---------------------------- MODULE Spec2Model ----------------------------
(***************************************************************************)
(* iSuite build tooling: the command runners, the build history / metrics  *)
(* store and the output classification of the Python sources.              *)
(*                                                                         *)
(* Every source file is an application of its own (each has its own        *)
(* main).  The variable app says which one is running; each application    *)
(* has its own variables (prefix bm_ : build_manager.py BuildManager,      *)
(* enh_ : build_manager_enhanced.py EnhancedBuildManager, ctl_ :           *)
(* master_app_controller.py MasterAppController, gui_ : master_gui_app.py  *)
(* MasterGUIApp, ism_ : isuite_master_app.py BuildManager, ma_ :           *)
(* master_app.py MasterApp) and its own actions.  The command queue of     *)
(* MasterGUIApp (gq_) and the log console of MasterAppController (log_)    *)
(* are explored as applications of their own.                              *)
(*                                                                         *)
(* A worker thread is identified with the run it executes: every accepted  *)
(* request creates a new threading.Thread.                                 *)
(*                                                                         *)
(* Environment modelled as nondeterminism: whether Popen raises, the       *)
(* lines the child prints, whether reading the output raises (text=True    *)
(* decoding), the exit code, whether the child outlives a timeout, and     *)
(* whether a Tk call made from a worker thread raises.                     *)
(***************************************************************************)
EXTENDS Integers, Sequences, FiniteSets, TLC

(***************************************************************************)
(* Bounds of the model.                                                    *)
(***************************************************************************)
\* runs of BuildManager and of MasterAppController
MaxRuns == 3
\* lines a child prints
MaxLines == 2
\* builds of EnhancedBuildManager and commands of the GUI application
MaxBuilds == 2
\* calls of the blocking run_flutter_command functions
MaxCalls == 2
\* check results of one status in a report of BuildOptimizer
MaxResults == 2
\* lines of a workflow file before any fix
MaxWorkflowLines == 2
\* calls of analyze_ci_cd_failure and of the fixes on one project, together
MaxAnalyses == 3
\* messages logged to the console of MasterAppController
MaxMessages == 4

RunIds == 1..MaxRuns
BuildIds == 1..MaxBuilds

VARIABLES
    app,                \* the application that is running
    \* build_manager.py BuildManager
    bm_is_building,     \* self.is_building
    bm_pc,              \* position of each run_in_thread worker
    bm_proc,            \* state of the Popen child of each worker
    bm_read,            \* lines read so far by each worker
    bm_build_history,   \* self.build_history
    bm_saved,           \* content of build_history.json
    bm_started,         \* number of accepted run_command calls
    bm_last,            \* outcome of the last run_command call
    \* build_manager_enhanced.py EnhancedBuildManager
    enh_current_build,  \* self.current_build is not None
    enh_main,           \* position of the Tk main thread
    enh_lock,           \* holder of self.lock: 0 free, -1 main, else run
    enh_pc,             \* position of each _execute_build worker
    enh_proc,           \* state of the Popen child of each worker
    enh_mainproc,       \* a subprocess.run child of the main thread is live
    enh_read,           \* lines read so far by each worker
    enh_metrics,        \* self.metrics
    enh_started,        \* number of accepted start_build calls
    enh_last,           \* outcome of the last start_build call
    enh_analysis,       \* what the last analyze_code read and counted
    \* master_app_controller.py MasterAppController
    ctl_pc,             \* position of each run_command worker
    ctl_proc,           \* state of the Popen child of each worker
    ctl_termreq,        \* the child was sent terminate()
    ctl_build_process,  \* self.build_process (0: None)
    ctl_run_process,    \* self.run_process (0: None)
    ctl_result,         \* what each worker reported for its command
    ctl_build_count,    \* self.build_count
    ctl_cancelled,      \* stop_operations was invoked while the child ran
    ctl_read,           \* lines read so far by each worker
    ctl_started,        \* number of execute_command calls
    \* master_app.py MasterApp
    ma_result,          \* value returned by the last run_flutter_command
    ma_path,            \* the path that call took
    ma_children,        \* children of finished calls that are still live
    ma_calls,           \* number of run_flutter_command calls
    ma_loop,            \* MasterApp.run: in its while loop, or left it
    ma_choice,          \* the last choice read by run
    ma_runs,            \* path of each run_flutter_command of that choice
    ma_returned,        \* what handle_menu_choice returned, or what was raised
    ma_choices,         \* number of iterations of the loop of run
    \* isuite_master_app.py BuildManager
    ism_build_history,  \* self.build_history
    ism_result,         \* value returned by the last run_flutter_command
    ism_path,           \* the path that call took
    ism_call,           \* what the child of that call printed and returned
    ism_children,       \* children of finished calls that are still live
    ism_executions,     \* number of calls whose Popen returned a child
    ism_calls,          \* number of run_flutter_command calls
    \* master_gui_app.py MasterGUIApp
    gui_build_history,  \* self.build_history
    gui_build_stats,    \* self.build_stats
    gui_file,           \* content of .isuite_master_build_history.json
    gui_pc,             \* position of each run worker
    gui_proc,           \* state of the subprocess.run child of each worker
    gui_appended,       \* record_build_attempt calls made for each run
    gui_recording,      \* the record_build_attempt call each worker is in
    gui_last,           \* the child that returned last and the tags of its
                        \* lines, until a record_build_attempt call ends
    gui_started,        \* number of run_command_async calls
    \* build_optimizer_enhanced.py BuildOptimizer
    bo_results,         \* self.results, as the number of results per status
    bo_pc,              \* position of run_all_checks
    bo_report,          \* what generate_report returned or raised
    \* ci_cd_analyzer.py CICDAnalyzer
    ci_workflow_file,   \* the workflow file given to analyze_ci_cd_failure
    ci_workflow,        \* the lines of that file
    ci_project,         \* pubspec.yaml and the test directories
    ci_tool,            \* what the flutter commands of the rules do
    ci_issues,          \* self.analysis_report["issues"]
    ci_pc,              \* outcome of the last analyze_ci_cd_failure call
    ci_analyses,        \* number of analyze_ci_cd_failure calls
    ci_fixes,           \* number of fix calls
    ci_fix_result,      \* what the last fix call returned
    ci_fixes_applied,   \* self.analysis_report["fixes_applied"]
    ci_report,          \* what the last generate_report of this analyzer did
    ci_trail,           \* progress of report, fix, report again on timeout_missing
    \* master_gui_app.py MasterGUIApp, the command queue
    gq_attrs,           \* the object has command_queue and is_processing_queue
    gq_command_queue,   \* self.command_queue
    gq_is_processing_queue, \* self.is_processing_queue
    gq_pc,              \* position of the main thread (0) and of each worker
    gq_added,           \* number of add_to_queue calls
    gq_started,         \* the commands handed to run_command_async, in order
    gq_raised,          \* what the last call on the queue raised
    \* master_app_controller.py MasterAppController, the log console
    log_text,           \* number of lines self.log_text holds
    log_queue,          \* self.log_queue, as the lines of each message
    log_last,           \* the message inserted last and what is left of it
    log_deleted,        \* the latest delete of process_logs
    log_messages        \* number of log_message calls

bm_vars == <<bm_is_building, bm_pc, bm_proc, bm_read,
             bm_build_history, bm_saved, bm_started, bm_last>>

enh_vars == <<enh_current_build, enh_main, enh_lock, enh_pc, enh_proc,
              enh_mainproc, enh_read, enh_metrics, enh_started, enh_last,
              enh_analysis>>

ctl_vars == <<ctl_pc, ctl_proc, ctl_termreq, ctl_build_process,
              ctl_run_process, ctl_result, ctl_build_count, ctl_cancelled,
              ctl_read, ctl_started>>

ma_vars == <<ma_result, ma_path, ma_children, ma_calls, ma_loop, ma_choice,
             ma_runs, ma_returned, ma_choices>>

ism_vars == <<ism_build_history, ism_result, ism_path, ism_call,
              ism_children, ism_executions, ism_calls>>

gui_vars == <<gui_build_history, gui_build_stats, gui_file, gui_pc, gui_proc,
              gui_appended, gui_recording, gui_last, gui_started>>

bo_vars == <<bo_results, bo_pc, bo_report>>

ci_vars == <<ci_workflow_file, ci_workflow, ci_project, ci_tool, ci_issues,
             ci_pc, ci_analyses, ci_fixes, ci_fix_result, ci_fixes_applied,
             ci_report, ci_trail>>

gq_vars == <<gq_attrs, gq_command_queue, gq_is_processing_queue, gq_pc,
             gq_added, gq_started, gq_raised>>

log_vars == <<log_text, log_queue, log_last, log_deleted, log_messages>>

vars == <<app, bm_vars, enh_vars, ctl_vars, ma_vars, ism_vars, gui_vars,
          bo_vars, ci_vars, gq_vars, log_vars>>

Apps == {"build_manager", "build_manager_enhanced", "master_app_controller",
         "master_app", "isuite_master_app", "master_gui_app",
         "build_optimizer_enhanced", "ci_cd_analyzer", "master_gui_app_queue",
         "master_app_controller_console"}

(***************************************************************************)
(* Text.  A line of output is a sequence of characters; the tests of the   *)
(* sources on lines (in, lower, strip) are computed on the characters.     *)
(***************************************************************************)
UpperCase == <<"A", "B", "C", "D", "E", "F", "G", "H", "I", "J", "K", "L", "M",
               "N", "O", "P", "Q", "R", "S", "T", "U", "V", "W", "X", "Y", "Z">>

LowerCase == <<"a", "b", "c", "d", "e", "f", "g", "h", "i", "j", "k", "l", "m",
               "n", "o", "p", "q", "r", "s", "t", "u", "v", "w", "x", "y", "z">>

\* str.lower() on one character.
LowerChar(c) ==
    IF \E i \in 1..26 : UpperCase[i] = c
    THEN LowerCase[CHOOSE i \in 1..26 : UpperCase[i] = c]
    ELSE c

\* str.lower().
Lower(s) == [i \in 1..Len(s) |-> LowerChar(s[i])]

\* The Python test  p in s  on strings.
Contains(s, p) ==
    \E i \in 1..(Len(s) - Len(p) + 1) : SubSeq(s, i, i + Len(p) - 1) = p

\* The lines a child prints in the model.
LineTable == <<
    <<"o", "k">>,
    <<"e", "r", "r", "o", "r", ":", " ", "x">>,
    <<"w", "a", "r", "n", "i", "n", "g", ":", " ", "x">>,
    <<"w", "a", "r", "n", "i", "n", "g", ":", " ", "E", "r", "r", "o", "r", ":">> >>

LineIds == 1..Len(LineTable)

\* The outputs of a child: at most MaxLines lines.
Outputs == UNION {[1..n -> LineIds] : n \in 0..MaxLines}

\* A message is a sequence of pieces of text; it is empty when every piece is.
IsEmptyMsg(m) == \A i \in 1..Len(m) : m[i] = ""

\* str(e) of the exceptions raised in the model.
ExceptionTexts == {"", "No such file or directory"}

(***************************************************************************)
(* build_manager.py : BuildManager                                         *)
(***************************************************************************)
BM_Init ==
    /\ bm_is_building = FALSE
    /\ bm_pc = [r \in RunIds |-> "none"]
    /\ bm_proc = [r \in RunIds |-> "none"]
    /\ bm_read = [r \in RunIds |-> 0]
    /\ bm_build_history = <<>>
    /\ bm_saved = <<>>
    /\ bm_started = 0
    /\ bm_last = "none"

BM_frame ==
    UNCHANGED <<app, gq_vars, log_vars, enh_vars, ctl_vars, ma_vars, ism_vars,
                gui_vars, bo_vars, ci_vars>>

\* The guard of run_command (line 120).
BM_guard_mutant == FALSE

BM_guard == bm_is_building

\* run_command, the guard of lines 120-122: a request made while
\* is_building is set only shows the warning box and returns.
BM_run_command_busy ==
    /\ app = "build_manager"
    /\ BM_guard
    /\ bm_last' = "busy"
    /\ UNCHANGED <<bm_is_building, bm_pc, bm_proc, bm_read,
                   bm_build_history, bm_saved, bm_started>>
    /\ BM_frame

\* run_command, lines 124-126 and 188-190: set the flag on the calling
\* thread, then start the worker thread.
BM_run_command_start ==
    /\ app = "build_manager"
    /\ ~BM_guard
    /\ bm_started < MaxRuns
    /\ bm_pc' = [bm_pc EXCEPT ![bm_started + 1] = "spawn"]
    /\ bm_is_building' = TRUE
    /\ bm_started' = bm_started + 1
    /\ bm_last' = "started"
    /\ UNCHANGED <<bm_proc, bm_read, bm_build_history, bm_saved>>
    /\ BM_frame

\* run_in_thread lines 130-145: Popen either returns a live child or raises.
BM_spawn(r) ==
    /\ app = "build_manager"
    /\ bm_pc[r] = "spawn"
    /\ \/ /\ bm_proc' = [bm_proc EXCEPT ![r] = "live"]
          /\ bm_pc' = [bm_pc EXCEPT ![r] = "stream"]
       \/ /\ bm_pc' = [bm_pc EXCEPT ![r] = "except"]
          /\ UNCHANGED bm_proc
    /\ UNCHANGED <<bm_is_building, bm_read, bm_build_history,
                   bm_saved, bm_started, bm_last>>
    /\ BM_frame

\* run_in_thread lines 148-149: one iteration of the read loop; reading a
\* line may raise (decoding), end of output leaves the loop.
BM_stream(r) ==
    /\ app = "build_manager"
    /\ bm_pc[r] = "stream"
    /\ \/ /\ bm_read[r] < MaxLines
          /\ bm_read' = [bm_read EXCEPT ![r] = @ + 1]
          /\ UNCHANGED bm_pc
       \/ /\ bm_pc' = [bm_pc EXCEPT ![r] = "except"]
          /\ bm_read' = [bm_read EXCEPT ![r] = 0]
       \/ /\ bm_pc' = [bm_pc EXCEPT ![r] = "wait"]
          /\ bm_read' = [bm_read EXCEPT ![r] = 0]
    /\ UNCHANGED <<bm_is_building, bm_proc, bm_build_history,
                   bm_saved, bm_started, bm_last>>
    /\ BM_frame

\* run_in_thread lines 152-170: wait for the child and append the
\* SUCCESS or FAILED record.
BM_wait(r) ==
    /\ app = "build_manager"
    /\ bm_pc[r] = "wait"
    /\ \E rc \in {0, 1} :
        bm_build_history' = Append(bm_build_history,
            [run |-> r, status |-> IF rc = 0 THEN "SUCCESS" ELSE "FAILED"])
    /\ bm_proc' = [bm_proc EXCEPT ![r] = "exited"]
    /\ bm_pc' = [bm_pc EXCEPT ![r] = "finally"]
    /\ UNCHANGED <<bm_is_building, bm_read, bm_saved, bm_started, bm_last>>
    /\ BM_frame

\* run_in_thread lines 172-180: the handler appends the EXCEPTION record.
BM_except(r) ==
    /\ app = "build_manager"
    /\ bm_pc[r] = "except"
    /\ bm_build_history' = Append(bm_build_history,
            [run |-> r, status |-> "EXCEPTION"])
    /\ bm_pc' = [bm_pc EXCEPT ![r] = "finally"]
    /\ UNCHANGED <<bm_is_building, bm_proc, bm_read, bm_saved,
                   bm_started, bm_last>>
    /\ BM_frame

\* run_in_thread lines 182-186 with save_build_history (311-318).
BM_finally(r) ==
    /\ app = "build_manager"
    /\ bm_pc[r] = "finally"
    /\ bm_is_building' = FALSE
    /\ bm_saved' = bm_build_history
    /\ bm_pc' = [bm_pc EXCEPT ![r] = "done"]
    /\ UNCHANGED <<bm_proc, bm_read, bm_build_history, bm_started, bm_last>>
    /\ BM_frame

\* A worker is in flight from thread.start() to the reset in its finally.
BM_inflight == {r \in RunIds : bm_pc[r] \notin {"none", "done"}}

BM_Next ==
    \/ BM_run_command_busy
    \/ BM_run_command_start
    \/ \E r \in RunIds : BM_spawn(r)
    \/ \E r \in RunIds : BM_stream(r)
    \/ \E r \in RunIds : BM_wait(r)
    \/ \E r \in RunIds : BM_except(r)
    \/ \E r \in RunIds : BM_finally(r)

(***************************************************************************)
(* build_manager_enhanced.py : EnhancedBuildManager                        *)
(***************************************************************************)
MainThread == 0 - 1

\* The lists of analyze_code outside a call of it.
ENH_no_analysis == [output |-> <<>>, issues |-> 0, warnings |-> 0]

\* update_metrics lines 294-296: the rate shown, as the fraction of line 296
\* times 100.
ENH_success_rate(metrics) ==
    IF metrics.total_builds > 0
    THEN <<metrics.successful_builds * 100, metrics.total_builds>>
    ELSE <<0, 1>>

ENH_Init ==
    /\ enh_current_build = FALSE
    /\ enh_main = "idle"
    /\ enh_lock = 0
    /\ enh_pc = [r \in BuildIds |-> "none"]
    /\ enh_proc = [r \in BuildIds |-> "none"]
    /\ enh_mainproc = FALSE
    /\ enh_read = [r \in BuildIds |-> 0]
    /\ enh_metrics = [total_builds |-> 0, successful_builds |-> 0,
                      failed_builds |-> 0, average_build_time |-> <<0, 1>>]
    /\ enh_started = 0
    /\ enh_last = "none"
    /\ enh_analysis = ENH_no_analysis

ENH_frame ==
    UNCHANGED <<app, gq_vars, log_vars, bm_vars, ctl_vars, ma_vars, ism_vars,
                gui_vars, bo_vars, ci_vars>>

\* start_build lines 312-315: a request made while current_build is set
\* only shows the warning box and returns.
ENH_start_build_busy ==
    /\ app = "build_manager_enhanced"
    /\ enh_main = "idle"
    /\ enh_current_build
    /\ enh_last' = "busy"
    /\ UNCHANGED <<enh_current_build, enh_main, enh_lock, enh_pc, enh_proc,
                   enh_mainproc, enh_read, enh_metrics, enh_started, enh_analysis>>
    /\ ENH_frame

\* start_build lines 317-325: the worker thread is started before
\* current_build is assigned.
ENH_start_build_thread ==
    /\ app = "build_manager_enhanced"
    /\ enh_main = "idle"
    /\ ~enh_current_build
    /\ enh_started < MaxBuilds
    /\ enh_pc' = [enh_pc EXCEPT ![enh_started + 1] = "lock"]
    /\ enh_started' = enh_started + 1
    /\ enh_main' = "assign"
    /\ enh_last' = "started"
    /\ UNCHANGED <<enh_current_build, enh_lock, enh_proc, enh_mainproc,
                   enh_read, enh_metrics, enh_analysis>>
    /\ ENH_frame

\* start_build lines 327-332: current_build = {...} on the main thread.
ENH_start_build_assign ==
    /\ app = "build_manager_enhanced"
    /\ enh_main = "assign"
    /\ enh_current_build' = TRUE
    /\ enh_main' = "idle"
    /\ UNCHANGED <<enh_lock, enh_pc, enh_proc, enh_mainproc, enh_read,
                   enh_metrics, enh_started, enh_last, enh_analysis>>
    /\ ENH_frame

\* _execute_build lines 336-338: take self.lock, count the build.
ENH_execute_lock(r) ==
    /\ app = "build_manager_enhanced"
    /\ enh_pc[r] = "lock"
    /\ enh_lock = 0
    /\ enh_lock' = r
    /\ enh_metrics' = [enh_metrics EXCEPT !.total_builds = @ + 1]
    /\ enh_pc' = [enh_pc EXCEPT ![r] = "spawn"]
    /\ UNCHANGED <<enh_current_build, enh_main, enh_proc, enh_mainproc,
                   enh_read, enh_started, enh_last, enh_analysis>>
    /\ ENH_frame

\* _execute_build lines 340-361: Popen returns a live child or raises.
ENH_execute_spawn(r) ==
    /\ app = "build_manager_enhanced"
    /\ enh_pc[r] = "spawn"
    /\ \/ /\ enh_proc' = [enh_proc EXCEPT ![r] = "live"]
          /\ enh_pc' = [enh_pc EXCEPT ![r] = "monitor"]
       \/ /\ enh_pc' = [enh_pc EXCEPT ![r] = "except"]
          /\ UNCHANGED enh_proc
    /\ UNCHANGED <<enh_current_build, enh_main, enh_lock, enh_mainproc,
                   enh_read, enh_metrics, enh_started, enh_last, enh_analysis>>
    /\ ENH_frame

\* monitor_build_process lines 385-396: readline returned a line without
\* an error pattern and the child is still running at the poll of line 411.
ENH_monitor_line(r) ==
    /\ app = "build_manager_enhanced"
    /\ enh_pc[r] = "monitor"
    /\ enh_read[r] < MaxLines
    /\ enh_read' = [enh_read EXCEPT ![r] = @ + 1]
    /\ UNCHANGED <<enh_current_build, enh_main, enh_lock, enh_pc, enh_proc,
                   enh_mainproc, enh_metrics, enh_started, enh_last, enh_analysis>>
    /\ ENH_frame

\* monitor_build_process lines 389-393: a line with an error pattern:
\* terminate() is sent (the child is not waited for), the build is counted
\* failed and the loop is left.
ENH_monitor_error_mutant(r) ==
    /\ app = "build_manager_enhanced"
    /\ enh_pc[r] = "monitor"
    /\ enh_read[r] < MaxLines
    /\ enh_read' = [enh_read EXCEPT ![r] = 0]
    /\ enh_proc' = [enh_proc EXCEPT ![r] = "terminated"]
    /\ enh_metrics' = [enh_metrics EXCEPT !.failed_builds = @ + 1]
    /\ enh_pc' = [enh_pc EXCEPT ![r] = "except"]
    /\ UNCHANGED <<enh_current_build, enh_main, enh_lock, enh_mainproc,
                   enh_started, enh_last, enh_analysis>>
    /\ ENH_frame

ENH_monitor_error(r) ==
    /\ app = "build_manager_enhanced"
    /\ enh_pc[r] = "monitor"
    /\ enh_read[r] < MaxLines
    /\ enh_read' = [enh_read EXCEPT ![r] = 0]
    /\ enh_proc' = [enh_proc EXCEPT ![r] = "terminated"]
    /\ enh_metrics' = [enh_metrics EXCEPT !.failed_builds = @ + 1]
    /\ enh_pc' = [enh_pc EXCEPT ![r] = "finally"]
    /\ UNCHANGED <<enh_current_build, enh_main, enh_lock, enh_mainproc,
                   enh_started, enh_last, enh_analysis>>
    /\ ENH_frame

\* The seconds a build takes (build_time of line 413).
ENH_build_times == {2}

\* monitor_build_process lines 430-433: the running mean over
\* total_builds, kept as the fraction <<numerator, denominator>>.  The
\* expression of lines 431-433 lacks its closing parenthesis; it is read as
\* (average_build_time * (total_builds - 1) + build_time) / total_builds.
ENH_average(metrics, build_time) ==
    LET avg == metrics.average_build_time
    IN <<avg[1] * (metrics.total_builds - 1) + build_time * avg[2],
         avg[2] * metrics.total_builds>>

\* monitor_build_process lines 411-436: poll() finds the child exited.  With
\* return code 0 the build is counted successful and the Tk calls of lines
\* 418-424 follow, which may raise and then skip the update of the average;
\* otherwise it is counted failed.  Lines 430-433 then update the average.
ENH_monitor_exit(r) ==
    /\ app = "build_manager_enhanced"
    /\ enh_pc[r] = "monitor"
    /\ enh_proc' = [enh_proc EXCEPT ![r] = "exited"]
    /\ \E build_time \in ENH_build_times :
        \/ /\ enh_metrics' = [enh_metrics EXCEPT !.successful_builds = @ + 1]
           /\ enh_pc' = [enh_pc EXCEPT ![r] = "except"]
        \/ /\ enh_metrics' = [enh_metrics EXCEPT
                  !.successful_builds = @ + 1,
                  !.average_build_time = ENH_average(enh_metrics, build_time)]
           /\ enh_pc' = [enh_pc EXCEPT ![r] = "finally"]
        \/ /\ enh_metrics' = [enh_metrics EXCEPT
                  !.failed_builds = @ + 1,
                  !.average_build_time = ENH_average(enh_metrics, build_time)]
           /\ enh_pc' = [enh_pc EXCEPT ![r] = "finally"]
    /\ enh_read' = [enh_read EXCEPT ![r] = 0]
    /\ UNCHANGED <<enh_current_build, enh_main, enh_lock, enh_mainproc,
                   enh_started, enh_last, enh_analysis>>
    /\ ENH_frame

\* monitor_build_process line 386: reading the output raises.
ENH_monitor_raise(r) ==
    /\ app = "build_manager_enhanced"
    /\ enh_pc[r] = "monitor"
    /\ enh_pc' = [enh_pc EXCEPT ![r] = "except"]
    /\ enh_read' = [enh_read EXCEPT ![r] = 0]
    /\ UNCHANGED <<enh_current_build, enh_main, enh_lock, enh_proc,
                   enh_mainproc, enh_metrics, enh_started, enh_last, enh_analysis>>
    /\ ENH_frame

\* _execute_build lines 366-368: the handler counts the build failed.
ENH_execute_except(r) ==
    /\ app = "build_manager_enhanced"
    /\ enh_pc[r] = "except"
    /\ enh_metrics' = [enh_metrics EXCEPT !.failed_builds = @ + 1]
    /\ enh_pc' = [enh_pc EXCEPT ![r] = "finally"]
    /\ UNCHANGED <<enh_current_build, enh_main, enh_lock, enh_proc,
                   enh_mainproc, enh_read, enh_started, enh_last, enh_analysis>>
    /\ ENH_frame

\* _execute_build lines 369-371: current_build = None, still under the lock.
ENH_execute_finally(r) ==
    /\ app = "build_manager_enhanced"
    /\ enh_pc[r] = "finally"
    /\ enh_current_build' = FALSE
    /\ enh_pc' = [enh_pc EXCEPT ![r] = "release"]
    /\ UNCHANGED <<enh_main, enh_lock, enh_proc, enh_mainproc, enh_read,
                   enh_metrics, enh_started, enh_last, enh_analysis>>
    /\ ENH_frame

\* _execute_build line 336: leaving the with block releases self.lock.
ENH_execute_release(r) ==
    /\ app = "build_manager_enhanced"
    /\ enh_pc[r] = "release"
    /\ enh_lock' = 0
    /\ enh_pc' = [enh_pc EXCEPT ![r] = "done"]
    /\ UNCHANGED <<enh_current_build, enh_main, enh_proc, enh_mainproc,
                   enh_read, enh_metrics, enh_started, enh_last, enh_analysis>>
    /\ ENH_frame

\* A child that was sent terminate() and never waited for exits on its own.
ENH_child_exits(r) ==
    /\ app = "build_manager_enhanced"
    /\ enh_proc[r] = "terminated"
    /\ enh_proc' = [enh_proc EXCEPT ![r] = "exited"]
    /\ UNCHANGED <<enh_current_build, enh_main, enh_lock, enh_pc,
                   enh_mainproc, enh_read, enh_metrics, enh_started, enh_last, enh_analysis>>
    /\ ENH_frame

\* pub_get / pub_upgrade / format_code / flutter_doctor / run_all_tests
\* (lines 562-658): subprocess.run on the main thread, without self.lock.
ENH_pub_get_begin ==
    /\ app = "build_manager_enhanced"
    /\ enh_main = "idle"
    /\ enh_main' = "pub_get"
    /\ enh_mainproc' = TRUE
    /\ UNCHANGED <<enh_current_build, enh_lock, enh_pc, enh_proc, enh_read,
                   enh_metrics, enh_started, enh_last, enh_analysis>>
    /\ ENH_frame

ENH_pub_get_end ==
    /\ app = "build_manager_enhanced"
    /\ enh_main = "pub_get"
    /\ enh_main' = "idle"
    /\ enh_mainproc' = FALSE
    /\ UNCHANGED <<enh_current_build, enh_lock, enh_pc, enh_proc, enh_read,
                   enh_metrics, enh_started, enh_last, enh_analysis>>
    /\ ENH_frame

\* analyze_code line 471 and line 473: the list a line is put in.
ENH_analyze_tag(line) ==
    IF Contains(Lower(line), <<"e", "r", "r", "o", "r", ":">>) THEN "error"
    ELSE IF Contains(Lower(line), <<"w", "a", "r", "n", "i", "n", "g", ":">>) THEN "warning"
    ELSE "none"

\* The list each line of the table is put in.
ENH_analyze_tags == [l \in LineIds |-> ENH_analyze_tag(LineTable[l])]

\* len(issues) and len(warnings) of analyze_code (lines 467-476).
ENH_count(output, tag) ==
    Cardinality({i \in 1..Len(output) : ENH_analyze_tags[output[i]] = tag})

\* clean_project / analyze_code / run_tests / build_platform (lines
\* 438-548): the main thread asks for self.lock.
ENH_locked_begin ==
    /\ app = "build_manager_enhanced"
    /\ enh_main = "idle"
    /\ enh_main' = "wait_lock"
    /\ UNCHANGED <<enh_current_build, enh_lock, enh_pc, enh_proc,
                   enh_mainproc, enh_read, enh_metrics, enh_started, enh_last,
                   enh_analysis>>
    /\ ENH_frame

\* with self.lock: subprocess.run on the main thread.
ENH_locked_run ==
    /\ app = "build_manager_enhanced"
    /\ enh_main = "wait_lock"
    /\ enh_lock = 0
    /\ enh_lock' = MainThread
    /\ enh_main' = "locked"
    /\ enh_mainproc' = TRUE
    /\ UNCHANGED <<enh_current_build, enh_pc, enh_proc, enh_read,
                   enh_metrics, enh_started, enh_last, enh_analysis>>
    /\ ENH_frame

\* clean_project, run_tests, build_platform: the child returns, the lock
\* is released.
ENH_clean_project_end ==
    /\ app = "build_manager_enhanced"
    /\ enh_main = "locked"
    /\ enh_lock' = 0
    /\ enh_main' = "idle"
    /\ enh_mainproc' = FALSE
    /\ UNCHANGED <<enh_current_build, enh_pc, enh_proc, enh_read,
                   enh_metrics, enh_started, enh_last, enh_analysis>>
    /\ ENH_frame

\* analyze_code lines 463-474: the child returns and its lines are put in
\* the local lists issues and warnings.
ENH_analyze_code_count ==
    /\ app = "build_manager_enhanced"
    /\ enh_main = "locked"
    /\ \E output \in Outputs :
        enh_analysis' = [output |-> output,
                         issues |-> ENH_count(output, "error"),
                         warnings |-> ENH_count(output, "warning")]
    /\ enh_main' = "analyzed"
    /\ enh_mainproc' = FALSE
    /\ UNCHANGED <<enh_current_build, enh_lock, enh_pc, enh_proc, enh_read,
                   enh_metrics, enh_started, enh_last>>
    /\ ENH_frame

\* analyze_code lines 476-486: the counts are reported, the lock is
\* released and the local lists are gone.
ENH_analyze_code_end ==
    /\ app = "build_manager_enhanced"
    /\ enh_main = "analyzed"
    /\ enh_analysis' = ENH_no_analysis
    /\ enh_lock' = 0
    /\ enh_main' = "idle"
    /\ UNCHANGED <<enh_current_build, enh_pc, enh_proc, enh_mainproc,
                   enh_read, enh_metrics, enh_started, enh_last>>
    /\ ENH_frame

\* A worker is in flight from thread.start() to the reset in its finally.
ENH_inflight == {r \in BuildIds : enh_pc[r] \notin {"none", "release", "done"}}

ENH_Next ==
    \/ ENH_start_build_busy
    \/ ENH_start_build_thread
    \/ ENH_start_build_assign
    \/ \E r \in BuildIds : ENH_execute_lock(r)
    \/ \E r \in BuildIds : ENH_execute_spawn(r)
    \/ \E r \in BuildIds : ENH_monitor_line(r)
    \/ \E r \in BuildIds : ENH_monitor_error(r)
    \/ \E r \in BuildIds : ENH_monitor_exit(r)
    \/ \E r \in BuildIds : ENH_monitor_raise(r)
    \/ \E r \in BuildIds : ENH_execute_except(r)
    \/ \E r \in BuildIds : ENH_execute_finally(r)
    \/ \E r \in BuildIds : ENH_execute_release(r)
    \/ \E r \in BuildIds : ENH_child_exits(r)
    \/ ENH_pub_get_begin
    \/ ENH_pub_get_end
    \/ ENH_locked_begin
    \/ ENH_locked_run
    \/ ENH_clean_project_end
    \/ ENH_analyze_code_count
    \/ ENH_analyze_code_end

(***************************************************************************)
(* master_app_controller.py : MasterAppController                          *)
(***************************************************************************)
CTL_Init ==
    /\ ctl_pc = [r \in RunIds |-> "none"]
    /\ ctl_proc = [r \in RunIds |-> "none"]
    /\ ctl_termreq = [r \in RunIds |-> FALSE]
    /\ ctl_build_process = 0
    /\ ctl_run_process = 0
    /\ ctl_result = [r \in RunIds |-> "none"]
    /\ ctl_build_count = 0
    /\ ctl_cancelled = [r \in RunIds |-> FALSE]
    /\ ctl_read = [r \in RunIds |-> 0]
    /\ ctl_started = 0

CTL_frame ==
    UNCHANGED <<app, gq_vars, log_vars, bm_vars, enh_vars, ma_vars, ism_vars,
                gui_vars, bo_vars, ci_vars>>

\* execute_command lines 407-454: no guard; every call starts a thread.
CTL_execute_command ==
    /\ app = "master_app_controller"
    /\ ctl_started < MaxRuns
    /\ ctl_pc' = [ctl_pc EXCEPT ![ctl_started + 1] = "spawn"]
    /\ ctl_started' = ctl_started + 1
    /\ UNCHANGED <<ctl_proc, ctl_termreq, ctl_build_process, ctl_run_process,
                   ctl_result, ctl_build_count, ctl_cancelled, ctl_read>>
    /\ CTL_frame

\* run_command lines 411-427: Popen returns a live child, kept only in the
\* local variable process, or raises.
CTL_spawn(r) ==
    /\ app = "master_app_controller"
    /\ ctl_pc[r] = "spawn"
    /\ \/ /\ ctl_proc' = [ctl_proc EXCEPT ![r] = "live"]
          /\ ctl_pc' = [ctl_pc EXCEPT ![r] = "stream"]
       \/ /\ ctl_pc' = [ctl_pc EXCEPT ![r] = "except"]
          /\ UNCHANGED ctl_proc
    /\ UNCHANGED <<ctl_termreq, ctl_build_process, ctl_run_process,
                   ctl_result, ctl_build_count, ctl_cancelled, ctl_read,
                   ctl_started>>
    /\ CTL_frame

\* run_command lines 430-431: one iteration of the read loop.
CTL_stream(r) ==
    /\ app = "master_app_controller"
    /\ ctl_pc[r] = "stream"
    /\ \/ /\ ctl_read[r] < MaxLines
          /\ ctl_read' = [ctl_read EXCEPT ![r] = @ + 1]
          /\ UNCHANGED ctl_pc
       \/ /\ ctl_pc' = [ctl_pc EXCEPT ![r] = "except"]
          /\ ctl_read' = [ctl_read EXCEPT ![r] = 0]
       \/ /\ ctl_pc' = [ctl_pc EXCEPT ![r] = "wait"]
          /\ ctl_read' = [ctl_read EXCEPT ![r] = 0]
    /\ UNCHANGED <<ctl_proc, ctl_termreq, ctl_build_process, ctl_run_process,
                   ctl_result, ctl_build_count, ctl_cancelled, ctl_started>>
    /\ CTL_frame

\* run_command lines 434-445: wait, then report by return code.  A child
\* that was sent terminate() does not return 0.
CTL_wait(r) ==
    /\ app = "master_app_controller"
    /\ ctl_pc[r] = "wait"
    /\ \E rc \in {0, 1} :
        /\ ctl_termreq[r] => rc # 0
        /\ ctl_result' = [ctl_result EXCEPT
                            ![r] = IF rc = 0 THEN "success" ELSE "failed"]
        /\ ctl_build_count' = IF rc = 0 THEN ctl_build_count + 1
                                        ELSE ctl_build_count
    /\ ctl_proc' = [ctl_proc EXCEPT ![r] = "exited"]
    /\ ctl_pc' = [ctl_pc EXCEPT ![r] = "done"]
    /\ UNCHANGED <<ctl_termreq, ctl_build_process, ctl_run_process,
                   ctl_cancelled, ctl_read, ctl_started>>
    /\ CTL_frame

\* run_command lines 447-450: the handler logs the error.
CTL_except(r) ==
    /\ app = "master_app_controller"
    /\ ctl_pc[r] = "except"
    /\ ctl_result' = [ctl_result EXCEPT ![r] = "error"]
    /\ ctl_pc' = [ctl_pc EXCEPT ![r] = "done"]
    /\ UNCHANGED <<ctl_proc, ctl_termreq, ctl_build_process, ctl_run_process,
                   ctl_build_count, ctl_cancelled, ctl_read, ctl_started>>
    /\ CTL_frame

\* A child abandoned by the handler exits on its own.
CTL_child_exits(r) ==
    /\ app = "master_app_controller"
    /\ ctl_pc[r] = "done"
    /\ ctl_proc[r] = "live"
    /\ ctl_proc' = [ctl_proc EXCEPT ![r] = "exited"]
    /\ UNCHANGED <<ctl_pc, ctl_termreq, ctl_build_process, ctl_run_process,
                   ctl_result, ctl_build_count, ctl_cancelled, ctl_read,
                   ctl_started>>
    /\ CTL_frame

\* The children stop_operations sends terminate() to (lines 506-513): the
\* ones held in self.build_process and self.run_process.
CTL_stop_targets == {ctl_build_process, ctl_run_process} \ {0}

\* stop_operations lines 504-514.
CTL_stop_operations ==
    /\ app = "master_app_controller"
    /\ ctl_termreq' = [r \in RunIds |->
                          ctl_termreq[r] \/ r \in CTL_stop_targets]
    /\ ctl_build_process' = 0
    /\ ctl_run_process' = 0
    /\ ctl_cancelled' = [r \in RunIds |->
                            ctl_cancelled[r] \/ ctl_proc[r] = "live"]
    /\ UNCHANGED <<ctl_pc, ctl_proc, ctl_result, ctl_build_count, ctl_read,
                   ctl_started>>
    /\ CTL_frame

CTL_Next ==
    \/ CTL_execute_command
    \/ \E r \in RunIds : CTL_spawn(r)
    \/ \E r \in RunIds : CTL_stream(r)
    \/ \E r \in RunIds : CTL_wait(r)
    \/ \E r \in RunIds : CTL_except(r)
    \/ \E r \in RunIds : CTL_child_exits(r)
    \/ CTL_stop_operations

(***************************************************************************)
(* master_app_controller.py MasterAppController: the log console           *)
(* (log_message, process_logs), explored apart from the commands of the    *)
(* same class.                                                             *)
(*                                                                         *)
(* The text of self.log_text is kept as its number of lines: every         *)
(* message is inserted with a "\n" after it, so a widget that holds n      *)
(* lines has index('end-1c') = "<n+1>.0".  A message is given by the       *)
(* number of lines it has: 1 for a line of output (line 431, stripped)     *)
(* and for the fixed texts, more for a text that carries str(e) of an      *)
(* exception with a message of several lines (lines 448, 541, 628, 644).   *)
(***************************************************************************)
LOG_MessageLines == {1, 9, 90, 900}

LOG_frame ==
    UNCHANGED <<app, gq_vars, bm_vars, enh_vars, ctl_vars, ma_vars, ism_vars,
                gui_vars, bo_vars, ci_vars>>

\* No deletion was made by process_logs yet.
LOG_no_deletion == [line |-> 0, lines |-> 0]

LOG_Init ==
    /\ log_text = 0
    /\ log_queue = <<>>
    /\ log_last = [size |-> 0, shown |-> 0]
    /\ log_deleted = LOG_no_deletion
    /\ log_messages = 0

\* str of a line number, as Tk prints it in an index: its decimal digits.
RECURSIVE LOG_str(_)
LOG_str(n) ==
    IF n < 10 THEN <<n>> ELSE LOG_str(n \div 10) \o <<n % 10>>

\* a > b for two Python strings of digits, from the i-th character on: the
\* first character that differs decides, and a proper prefix is smaller.
RECURSIVE LOG_str_gt(_, _, _)
LOG_str_gt(a, b, i) ==
    IF i > Len(a) THEN FALSE
    ELSE IF i > Len(b) THEN TRUE
    ELSE IF a[i] # b[i] THEN a[i] > b[i]
    ELSE LOG_str_gt(a, b, i + 1)

\* process_logs lines 387-396 for one message of k lines on a widget of
\* text lines: the insert, the test of line 395 on the strings, and the
\* delete of line 396, which removes the lines before line 100, all of them
\* when there are fewer.  last tells how many lines of the message are
\* still in the widget; deleted keeps the line number tested and the number
\* of lines removed by the latest delete.
LOG_insert(st, k) ==
    LET n == st.text + k
        over == LOG_str_gt(LOG_str(n + 1), <<1, 0, 0, 0>>, 1)
        d == IF ~over THEN 0 ELSE IF n < 99 THEN n ELSE 99
    IN [text |-> n - d,
        last |-> [size |-> k, shown |-> IF n - d < k THEN n - d ELSE k],
        deleted |-> IF over THEN [line |-> n + 1, lines |-> d]
                    ELSE st.deleted]

\* The loop of process_logs (lines 385-399) over the messages of the queue
\* from the i-th on.
RECURSIVE LOG_drain(_, _, _)
LOG_drain(st, q, i) ==
    IF i > Len(q) THEN st ELSE LOG_drain(LOG_insert(st, q[i]), q, i + 1)

\* log_message lines 368-372, called from any thread: the message is put
\* on the queue.
LOG_log_message(k) ==
    /\ app = "master_app_controller_console"
    /\ log_messages < MaxMessages
    /\ log_messages' = log_messages + 1
    /\ log_queue' = Append(log_queue, k)
    /\ UNCHANGED <<log_text, log_last, log_deleted>>
    /\ LOG_frame

\* process_logs lines 382-405 on the main thread, every 100 ms: the queue
\* is emptied into the widget.
LOG_process_logs ==
    /\ app = "master_app_controller_console"
    /\ log_queue # <<>>
    /\ LET st == LOG_drain([text |-> log_text, last |-> log_last,
                            deleted |-> log_deleted], log_queue, 1)
       IN /\ log_text' = st.text
          /\ log_last' = st.last
          /\ log_deleted' = st.deleted
    /\ log_queue' = <<>>
    /\ UNCHANGED log_messages
    /\ LOG_frame

LOG_Next ==
    \/ \E k \in LOG_MessageLines : LOG_log_message(k)
    \/ LOG_process_logs

(***************************************************************************)
(* master_app.py : MasterApp                                               *)
(***************************************************************************)
MA_Commands == {"clean", "build debug"}

\* str(timeout) of the timeouts passed by the callers (lines 201, 206).
MA_Timeouts == {"30", "120"}

\* The stderr texts of a failing child, and stderr.strip() (line 176).
MA_Stderrs == {"", " ", "boom"}

Strip(s) == IF s = " " THEN "" ELSE s

MA_Init ==
    /\ ma_result = [ok |-> TRUE, msg |-> <<>>]
    /\ ma_path = "none"
    /\ ma_children = 0
    /\ ma_calls = 0
    /\ ma_loop = "menu"
    /\ ma_choice = "none"
    /\ ma_runs = <<>>
    /\ ma_returned = "none"
    /\ ma_choices = 0

MA_frame ==
    UNCHANGED <<app, gq_vars, log_vars, bm_vars, enh_vars, ctl_vars, ism_vars,
                gui_vars, bo_vars, ci_vars>>

\* run_flutter_command lines 185-188: the message of the handler.
MA_exception_msg_mutant(text, command) == <<text>>

MA_exception_msg(text, command) ==
    <<"Exception running command: ", text, " - ", command>>

\* run_flutter_command lines 180-183: the message of the timeout branch.
MA_timeout_msg(timeout, command) ==
    <<"Command timed out after ", timeout, " seconds: ", command>>

\* run_flutter_command line 176.
MA_error_msg(stderr, return_code) ==
    IF stderr # "" THEN <<Strip(stderr)>>
    ELSE <<"Command failed with return code ", return_code>>

\* run_flutter_command lines 148-188, one call.  Popen raises, or
\* communicate returns within the timeout, or TimeoutExpired is raised: the
\* handler of lines 180-183 returns without killing the child.
MA_run_flutter_command ==
    /\ app = "master_app"
    /\ ma_calls < MaxCalls
    /\ ma_calls' = ma_calls + 1
    /\ \E command \in MA_Commands, timeout \in MA_Timeouts :
        \/ \E text \in ExceptionTexts :
            /\ ma_result' = [ok |-> FALSE,
                             msg |-> MA_exception_msg(text, command)]
            /\ ma_path' = "exception"
            /\ UNCHANGED ma_children
        \/ /\ ma_result' = [ok |-> TRUE, msg |-> <<"stdout">>]
           /\ ma_path' = "ok"
           /\ UNCHANGED ma_children
        \/ \E stderr \in MA_Stderrs :
            /\ ma_result' = [ok |-> FALSE, msg |-> MA_error_msg(stderr, "1")]
            /\ ma_path' = "failed"
            /\ UNCHANGED ma_children
        \/ /\ ma_result' = [ok |-> FALSE,
                            msg |-> MA_timeout_msg(timeout, command)]
           /\ ma_path' = "timeout"
           /\ ma_children' = ma_children + 1
    /\ UNCHANGED <<ma_loop, ma_choice, ma_runs, ma_returned, ma_choices>>
    /\ MA_frame

\* A child left running by the timeout branch exits on its own.
MA_child_exits ==
    /\ app = "master_app"
    /\ ma_children > 0
    /\ ma_children' = ma_children - 1
    /\ UNCHANGED <<ma_result, ma_path, ma_calls, ma_loop, ma_choice, ma_runs,
                   ma_returned, ma_choices>>
    /\ MA_frame

\* The paths one run_flutter_command call can take (lines 150-188); it
\* returns (True, stdout) on the first and (False, message) on the others.
MA_Paths == {"ok", "failed", "timeout", "exception"}

MA_ok(path) == path = "ok"

\* clean_project lines 190-214: rmtree raises and the handler returns False,
\* or the two commands are run, their results are only used to choose a
\* log line (lines 202, 207), and True is returned (line 210).
MA_clean_project(rmtree_raises, runs) ==
    IF rmtree_raises THEN "False" ELSE "True"

\* build_project lines 216-238, and run_tests, analyze_code, format_code,
\* upgrade_dependencies, check_dependencies (lines 268-356), which have the
\* same shape: the result of the one command decides.
MA_build_project(runs) == IF MA_ok(runs[1]) THEN "True" ELSE "False"

\* run_project lines 240-266: a pair, whose first member is the flag.
MA_run_project(runs) ==
    IF MA_ok(runs[1]) THEN "(True, stdout)" ELSE "(False, message)"

\* The choices of the menu (lines 459-472) and an input that is none of
\* them.
MA_Choices ==
    {"1", "2", "3", "4", "5", "6", "7", "8", "9", "10", "11", "12", "x"}

\* The choices that run commands, and how many each runs.
MA_CommandChoices == {"1", "2", "3", "4", "5", "6", "7", "8"}

MA_commands_of(choice) ==
    IF choice = "2" THEN 2 ELSE IF choice \in MA_CommandChoices THEN 1 ELSE 0

\* handle_menu_choice lines 482-518.  Choices 10 and 11 call the sub-menu
\* and fall off the end of the function: None.
MA_handle_menu_choice(choice, rmtree_raises, runs) ==
    CASE choice = "2" -> MA_clean_project(rmtree_raises, runs)
      [] choice = "3" -> MA_run_project(runs)
      [] choice \in {"1", "4", "5", "6", "7", "8"} -> MA_build_project(runs)
      [] choice = "9" -> "True"
      [] choice \in {"10", "11"} -> "None"
      [] choice = "12" -> "False"
      [] OTHER -> "True"

\* not x of line 672, for the values handle_menu_choice returns.
MA_not(returned) == returned \in {"False", "None"}

\* The failure a caller can read from a returned value.
MA_reports_failure(returned) == returned \in {"False", "(False, message)"}

\* Sequences of n paths.
RECURSIVE MA_RunSeqs(_)
MA_RunSeqs(n) ==
    IF n = 0 THEN {<<>>}
    ELSE {<<p>> \o s : p \in MA_Paths, s \in MA_RunSeqs(n - 1)}

MA_timeouts(runs) == Cardinality({i \in 1..Len(runs) : runs[i] = "timeout"})

\* run lines 668-670 and 675-677: Ctrl-C at the prompt leaves the loop.
MA_run_interrupted ==
    /\ app = "master_app"
    /\ ma_loop = "menu"
    /\ ma_choices < MaxCalls
    /\ ma_choices' = ma_choices + 1
    /\ ma_loop' = "exited"
    /\ ma_choice' = "none"
    /\ ma_runs' = <<>>
    /\ ma_returned' = "KeyboardInterrupt"
    /\ UNCHANGED <<ma_result, ma_path, ma_children, ma_calls>>
    /\ MA_frame

\* run lines 667-681, one iteration: the choice is read and handled.  The
\* git menu calls self.run_command (lines 545, 552), which MasterApp does
\* not define: the AttributeError reaches the handler of line 678.
MA_run ==
    /\ app = "master_app"
    /\ ma_loop = "menu"
    /\ ma_choices < MaxCalls
    /\ ma_choices' = ma_choices + 1
    /\ \E choice \in MA_Choices, rmtree_raises \in BOOLEAN, raised \in BOOLEAN :
       \E runs \in MA_RunSeqs(IF rmtree_raises THEN 0
                               ELSE MA_commands_of(choice)) :
        /\ rmtree_raises => choice = "2"
        /\ raised => choice = "10"
        /\ ma_choice' = choice
        /\ ma_runs' = runs
        /\ ma_children' = ma_children + MA_timeouts(runs)
        /\ ma_returned' =
              IF raised THEN "Exception"
              ELSE MA_handle_menu_choice(choice, rmtree_raises, runs)
        /\ ma_loop' =
              IF raised \/ MA_not(MA_handle_menu_choice(choice, rmtree_raises,
                                                        runs))
              THEN "exited" ELSE "menu"
    /\ UNCHANGED <<ma_result, ma_path, ma_calls>>
    /\ MA_frame

MA_Next ==
    \/ MA_run_flutter_command
    \/ MA_run_interrupted
    \/ MA_run
    \/ MA_child_exits

(***************************************************************************)
(* isuite_master_app.py : BuildManager                                     *)
(***************************************************************************)
\* self.error_patterns (lines 41-47), all the patterns of all the kinds.
ISM_error_patterns == {
    <<"e", "r", "r", "o", "r", ":">>,
    <<"E", "r", "r", "o", "r", ":">>,
    <<"E", "R", "R", "O", "R", ":">>,
    <<"f", "a", "i", "l", "e", "d", ":">>,
    <<"F", "a", "i", "l", "e", "d", ":">>,
    <<"F", "A", "I", "L", "E", "D", ":">>,
    <<"p", "e", "r", "m", "i", "s", "s", "i", "o", "n", " ", "d", "e", "n", "i", "e", "d">>,
    <<"P", "e", "r", "m", "i", "s", "s", "i", "o", "n", " ", "d", "e", "n", "i", "e", "d">>,
    <<"a", "c", "c", "e", "s", "s", " ", "d", "e", "n", "i", "e", "d">>,
    <<"F", "l", "u", "t", "t", "e", "r", "E", "r", "r", "o", "r">>,
    <<"f", "l", "u", "t", "t", "e", "r", ":">>,
    <<"i", "m", "p", "o", "r", "t", " ", "e", "r", "r", "o", "r">>,
    <<"I", "m", "p", "o", "r", "t", "E", "r", "r", "o", "r">> }

\* run_flutter_command line 94: some pattern occurs in the line, as written.
ISM_line_has_error(line) == \E p \in ISM_error_patterns : Contains(line, p)

\* The lines of the table in which line 94 finds a pattern.
ISM_error_lines == {l \in LineIds : ISM_line_has_error(LineTable[l])}

\* run_flutter_command line 105.
ISM_success(return_code, error_detected) ==
    return_code = 0 /\ ~error_detected

\* run_flutter_command lines 127-130: the message of the handler.
ISM_exception_msg(text) == <<"Command execution error: ", text>>

\* The error lines of an output, in order (error_details, lines 94-96).
RECURSIVE ISM_error_details(_)
ISM_error_details(output) ==
    IF output = <<>> THEN <<>>
    ELSE LET rest == ISM_error_details(Tail(output))
         IN IF Head(output) \in ISM_error_lines
            THEN <<Head(output)>> \o rest
            ELSE rest

ISM_Init ==
    /\ ism_build_history = <<>>
    /\ ism_result = [ok |-> TRUE, error_msg |-> <<>>]
    /\ ism_path = "none"
    /\ ism_call = [output |-> <<>>, return_code |-> 0, delivered |-> <<>>]
    /\ ism_children = 0
    /\ ism_executions = 0
    /\ ism_calls = 0

ISM_frame ==
    UNCHANGED <<app, gq_vars, log_vars, bm_vars, enh_vars, ctl_vars, ma_vars,
                gui_vars, bo_vars, ci_vars>>

\* run_flutter_command lines 70-130, one call.  Popen raises; or reading a
\* line or the caller's output_callback raises after the lines of output
\* were read and handed to the callback (lines 89-100, in the order they
\* were read), and the
\* handler of lines 127-130 returns without a history entry, the child
\* still running; or the
\* output is read to its end, the child is waited for and the entry of
\* lines 112-118 is appended.
ISM_run_flutter_command ==
    /\ app = "isuite_master_app"
    /\ ism_calls < MaxCalls
    /\ ism_calls' = ism_calls + 1
    /\ \/ \E text \in ExceptionTexts :
            /\ ism_result' = [ok |-> FALSE,
                              error_msg |-> ISM_exception_msg(text)]
            /\ ism_path' = "spawn_exception"
            /\ UNCHANGED <<ism_build_history, ism_call, ism_children,
                           ism_executions>>
       \/ \E text \in ExceptionTexts, output \in Outputs :
            /\ ism_result' = [ok |-> FALSE,
                              error_msg |-> ISM_exception_msg(text)]
            /\ ism_path' = "run_exception"
            /\ ism_call' = [output |-> output, return_code |-> 0,
                            delivered |-> output]
            /\ ism_children' = ism_children + 1
            /\ ism_executions' = ism_executions + 1
            /\ UNCHANGED ism_build_history
       \/ \E output \in Outputs, return_code \in {0, 1} :
            LET error_details == ISM_error_details(output)
                error_detected == error_details # <<>>
                success == ISM_success(return_code, error_detected)
            IN /\ ism_build_history' = Append(ism_build_history,
                       [call |-> ism_calls + 1, success |-> success,
                        errors |-> Len(error_details)])
               /\ ism_result' = [ok |-> success, error_msg |-> <<>>]
               /\ ism_path' = "completed"
               /\ ism_call' = [output |-> output, return_code |-> return_code,
                               delivered |-> output]
               /\ ism_executions' = ism_executions + 1
               /\ UNCHANGED ism_children
    /\ ISM_frame

\* A child left running by the handler exits on its own.
ISM_child_exits ==
    /\ app = "isuite_master_app"
    /\ ism_children > 0
    /\ ism_children' = ism_children - 1
    /\ UNCHANGED <<ism_build_history, ism_result, ism_path, ism_call,
                   ism_executions, ism_calls>>
    /\ ISM_frame

ISM_Next ==
    \/ ISM_run_flutter_command
    \/ ISM_child_exits

(***************************************************************************)
(* master_gui_app.py : MasterGUIApp                                        *)
(***************************************************************************)
\* save_build_history line 74: the entries kept in the file.
Retention == 100

\* The error and warning words of run_command_async (lines 535, 537).
GUI_error_words == {<<"e", "r", "r", "o", "r">>, <<"f", "a", "i", "l", "e", "d">>, <<"e", "x", "c", "e", "p", "t", "i", "o", "n">>}

GUI_warn_words == {<<"w", "a", "r", "n", "i", "n", "g">>, <<"d", "e", "p", "r", "e", "c", "a", "t", "e", "d">>}

GUI_has_error_word(line) == \E w \in GUI_error_words : Contains(Lower(line), w)

GUI_has_warn_word(line) == \E w \in GUI_warn_words : Contains(Lower(line), w)

\* run_command_async lines 535-540: the tag of a line of stdout.
GUI_classify_mutant(line) ==
    IF GUI_has_warn_word(line) THEN "warning"
    ELSE IF GUI_has_error_word(line) THEN "error"
    ELSE "info"

GUI_classify(line) ==
    IF GUI_has_error_word(line) THEN "error"
    ELSE IF GUI_has_warn_word(line) THEN "warning"
    ELSE "info"

\* The tag of each line of the table when it is printed on stdout.
GUI_stdout_tag == [l \in LineIds |-> GUI_classify(LineTable[l])]

\* run_command_async lines 545-548: the tag of a line of stderr.
GUI_stderr_tag(returncode) == IF returncode = 0 THEN "warning" ELSE "error"

\* The duration of a run, in seconds (a run of the previous session took 1).
Durations == {2}

\* The stdout of a child: nothing or one line.
GUI_Stdouts == {o \in Outputs : Len(o) <= 1}

\* The stderr of a child: nothing or one line.
GUI_Stderrs == {<<>>, <<1>>}

\* The orders in which a child can have written the lines of its stdout
\* and the lines of its stderr.
RECURSIVE Interleavings(_, _)
Interleavings(a, b) ==
    IF a = <<>> THEN {b}
    ELSE IF b = <<>> THEN {a}
    ELSE {<<Head(a)>> \o s : s \in Interleavings(Tail(a), b)}
           \cup {<<Head(b)>> \o s : s \in Interleavings(a, Tail(b))}

\* run_command_async lines 531-548: the lines in the order self.log is
\* called with them, all of stdout and then all of stderr.
GUI_logged(stdout, stderr) == stdout \o stderr

\* run_command_async lines 555-559 and 582: the success flag recorded.
GUI_success(returncode) == returncode = 0

\* build_stats of __init__ (lines 46-52); average_build_time is kept as
\* the fraction <<total_time, successful_builds>> of line 107.
GUI_default_stats ==
    [total_builds |-> 0, successful_builds |-> 0, failed_builds |-> 0,
     average_build_time |-> <<0, 1>>]

\* self.build_history is kept as the number of entries at its front that
\* come from the previous session (each a success of one second) and the
\* sequence of the entries behind them.  The timestamp of an entry (line
\* 85) is the number of the record_build_attempt call that appended it, 0
\* for the entries of the previous session.
GUI_old_entry ==
    [success |-> TRUE, duration |-> 1, timestamp |-> 0, platform |-> "windows"]

GUI_empty_history == [old |-> 0, recent |-> <<>>]

\* len(self.build_history).
GUI_len(history) == history.old + Len(history.recent)

\* self.build_history[i], 1 <= i <= len.
GUI_entry(history, i) ==
    IF i <= history.old THEN GUI_old_entry
    ELSE history.recent[i - history.old]

\* record_build_attempt line 94: self.build_history.append(build_record).
GUI_append_mutant(history, entry) ==
    [history EXCEPT !.recent = <<entry>> \o @]

GUI_append(history, entry) ==
    [history EXCEPT !.recent = Append(@, entry)]

RECURSIVE GUI_sum_durations(_)
GUI_sum_durations(entries) ==
    IF entries = <<>> THEN 0
    ELSE (IF Head(entries).success THEN Head(entries).duration ELSE 0)
         + GUI_sum_durations(Tail(entries))

\* record_build_attempt line 104: sum of the durations of the successes.
GUI_total_time(history) ==
    history.old * GUI_old_entry.duration + GUI_sum_durations(history.recent)

\* save_build_history line 74: history[-n:].
GUI_last_entries_mutant(history, n) ==
    IF GUI_len(history) <= n THEN history
    ELSE IF history.old >= n THEN [old |-> n, recent |-> <<>>]
         ELSE [old |-> history.old,
               recent |-> SubSeq(history.recent, 1, n - history.old)]

GUI_last_entries(history, n) ==
    IF GUI_len(history) <= n THEN history
    ELSE IF Len(history.recent) >= n
         THEN [old |-> 0,
               recent |-> SubSeq(history.recent, Len(history.recent) - n + 1,
                                 Len(history.recent))]
         ELSE [old |-> n - Len(history.recent), recent |-> history.recent]

\* reversed(...) of lines 707 and 760.
RECURSIVE GUI_reversed(_)
GUI_reversed(entries) ==
    IF entries = <<>> THEN <<>>
    ELSE GUI_reversed(Tail(entries)) \o <<Head(entries)>>

\* show_build_history line 707: the number of builds shown.
Shown == 50

\* show_build_history line 707: self.build_history[-50:], the entries the
\* history window lists.
GUI_shown(history) == GUI_last_entries(history, Shown)

\* show_build_history lines 707-718 and _refresh_history lines 760-771: the
\* rows of the tree from its top, the entries of this session and then
\* those of the previous one.
GUI_rows(history) ==
    [recent |-> GUI_reversed(GUI_shown(history).recent),
     old |-> GUI_shown(history).old]

\* Row i of the tree, 1 <= i <= number of rows.
GUI_row(rows, i) ==
    IF i <= Len(rows.recent) THEN rows.recent[i] ELSE GUI_old_entry

\* save_build_history lines 69-80.
GUI_saved(history, stats) ==
    [exists |-> TRUE, history |-> GUI_last_entries(history, Retention),
     stats |-> stats]

\* record_build_attempt lines 95-107: the stats written by a call that read
\* total_builds as total before its entry was counted.  The increment of
\* line 95 is a read and a write with no lock around them (no Lock in the
\* file), and run is the target of one thread per call (line 601).
GUI_recorded(history, stats, total, success) ==
    LET successful == stats.successful_builds + (IF success THEN 1 ELSE 0)
    IN [total_builds |-> total + 1,
        successful_builds |-> successful,
        failed_builds |-> stats.failed_builds + (IF success THEN 0 ELSE 1),
        average_build_time |->
            IF successful > 0
            THEN <<GUI_total_time(history), successful>>
            ELSE stats.average_build_time]

\* _calculate_success_rate lines 731-736, as the fraction of line 736
\* times 100.
GUI_calculate_success_rate(stats) ==
    IF stats.total_builds = 0
    THEN <<0, 1>>
    ELSE <<stats.successful_builds * 100, stats.total_builds>>

\* load_build_history lines 57-67, on the state __init__ has set up.
GUI_loaded(file) ==
    IF file.exists
    THEN [history |-> file.history, stats |-> file.stats]
    ELSE [history |-> GUI_empty_history, stats |-> GUI_default_stats]

\* The history file found at start: none, or the file a previous session
\* left after Retention - 1 successful runs of one second.
GUI_no_file ==
    [exists |-> FALSE, history |-> GUI_empty_history,
     stats |-> GUI_default_stats]

GUI_previous_session ==
    [exists |-> TRUE,
     history |-> [old |-> Retention - 1, recent |-> <<>>],
     stats |-> [total_builds |-> Retention - 1,
                successful_builds |-> Retention - 1,
                failed_builds |-> 0,
                average_build_time |-> <<Retention - 1, Retention - 1>>]]

\* The call of record_build_attempt a worker is in: the total_builds it
\* read at line 95, its success argument, and where run goes on after it.
GUI_not_recording == [total |-> 0, success |-> FALSE, next |-> "none"]

\* No child has returned since the last record_build_attempt call ended.
GUI_no_child ==
    [returncode |-> 0, stdout |-> <<>>, stdout_tags |-> <<>>,
     stderr |-> <<>>, stderr_tags |-> <<>>, success |-> TRUE,
     produced |-> <<>>, logged |-> <<>>]

\* The command of each run_command_async call: Build Windows (line 956)
\* and Build APK (line 926) in turn, as str(command) holds them.
GUI_Commands == <<
    <<"f", "l", "u", "t", "t", "e", "r", " ", "b", "u", "i", "l", "d", " ", "w", "i", "n", "d", "o", "w", "s">>,
    <<"f", "l", "u", "t", "t", "e", "r", " ", "b", "u", "i", "l", "d", " ", "a", "p", "k">> >>

\* _extract_platform_from_command lines 111-122.
GUI_extract_platform_from_command(command) ==
    LET cmd_str == Lower(command)
    IN IF Contains(cmd_str, <<"w", "i", "n", "d", "o", "w", "s">>) THEN "windows"
       ELSE IF Contains(cmd_str, <<"a", "n", "d", "r", "o", "i", "d">>)
               \/ Contains(cmd_str, <<"a", "p", "k">>) THEN "android"
       ELSE IF Contains(cmd_str, <<"i", "o", "s">>) THEN "ios"
       ELSE IF Contains(cmd_str, <<"w", "e", "b">>) THEN "web"
       ELSE "unknown"

\* The platform of the entries each worker records.
GUI_platform ==
    [r \in BuildIds |->
        GUI_extract_platform_from_command(
            GUI_Commands[((r - 1) % Len(GUI_Commands)) + 1])]

\* _get_platform_stats lines 738-751.
GUI_Platforms == {"windows", "android", "ios", "web", "unknown"}

GUI_get_platform_stats(history) ==
    LET of(p) == {i \in 1..GUI_len(history) : GUI_entry(history, i).platform = p}
    IN [p \in {q \in GUI_Platforms : of(q) # {}} |->
          [total |-> Cardinality(of(p)),
           successful |->
               Cardinality({i \in of(p) : GUI_entry(history, i).success})]]

\* time.time() of line 85, as the number of the call.
RECURSIVE GUI_calls(_)
GUI_calls(n) == IF n = 0 THEN 0 ELSE gui_appended[n] + GUI_calls(n - 1)

GUI_time == GUI_calls(MaxBuilds) + 1

GUI_Init ==
    /\ gui_file \in IF app = "master_gui_app"
                     THEN {GUI_no_file, GUI_previous_session}
                     ELSE {GUI_no_file}
    /\ gui_build_history = GUI_loaded(gui_file).history
    /\ gui_build_stats = GUI_loaded(gui_file).stats
    /\ gui_pc = [r \in BuildIds |-> "none"]
    /\ gui_proc = [r \in BuildIds |-> "none"]
    /\ gui_appended = [r \in BuildIds |-> 0]
    /\ gui_recording = [r \in BuildIds |-> GUI_not_recording]
    /\ gui_last = GUI_no_child
    /\ gui_started = 0

GUI_frame ==
    UNCHANGED <<app, gq_vars, log_vars, bm_vars, enh_vars, ctl_vars, ma_vars,
                ism_vars, bo_vars, ci_vars>>

\* run_command_async lines 508-512 and 601-602: no guard; every call starts
\* a thread.
GUI_run_command_async ==
    /\ app = "master_gui_app"
    /\ gui_started < MaxBuilds
    /\ gui_pc' = [gui_pc EXCEPT ![gui_started + 1] = "run"]
    /\ gui_started' = gui_started + 1
    /\ UNCHANGED <<gui_build_history, gui_build_stats, gui_file, gui_proc,
                   gui_appended, gui_recording,
                   gui_last>>
    /\ GUI_frame

\* run lines 513-527: subprocess.run starts the child, or raises.
GUI_spawn(r) ==
    /\ app = "master_gui_app"
    /\ gui_pc[r] = "run"
    /\ \/ /\ gui_proc' = [gui_proc EXCEPT ![r] = "live"]
          /\ gui_pc' = [gui_pc EXCEPT ![r] = "running"]
       \/ /\ gui_pc' = [gui_pc EXCEPT ![r] = "except"]
          /\ UNCHANGED gui_proc
    /\ UNCHANGED <<gui_build_history, gui_build_stats, gui_file,
                   gui_appended, gui_recording,
                   gui_last, gui_started>>
    /\ GUI_frame

\* run lines 525-527: decoding the captured output raises.
GUI_run_raises(r) ==
    /\ app = "master_gui_app"
    /\ gui_pc[r] = "running"
    /\ gui_proc' = [gui_proc EXCEPT ![r] = "exited"]
    /\ gui_pc' = [gui_pc EXCEPT ![r] = "except"]
    /\ UNCHANGED <<gui_build_history, gui_build_stats, gui_file,
                   gui_appended, gui_recording,
                   gui_last, gui_started>>
    /\ GUI_frame

\* run lines 525-582 and record_build_attempt lines 84-95: subprocess.run
\* returns; the lines are tagged and logged, and the attempt is recorded by
\* the return code alone (lines 555, 559, 582): the entry is appended and
\* total_builds is read.
GUI_run_returns(r) ==
    /\ app = "master_gui_app"
    /\ gui_pc[r] = "running"
    /\ gui_proc' = [gui_proc EXCEPT ![r] = "exited"]
    /\ \E returncode \in {0, 1}, stdout \in GUI_Stdouts, stderr \in GUI_Stderrs,
          duration \in Durations :
       \E produced \in Interleavings(stdout, stderr) :
        LET success == GUI_success(returncode)
        IN /\ gui_last' =
                [returncode |-> returncode, stdout |-> stdout,
                 stdout_tags |-> [i \in 1..Len(stdout) |->
                                    GUI_stdout_tag[stdout[i]]],
                 stderr |-> stderr,
                 stderr_tags |-> [i \in 1..Len(stderr) |->
                                    GUI_stderr_tag(returncode)],
                 success |-> success,
                 produced |-> produced,
                 logged |-> GUI_logged(stdout, stderr)]
           /\ gui_build_history' =
                GUI_append(gui_build_history,
                           [success |-> success, duration |-> duration,
                            timestamp |-> GUI_time,
                            platform |-> GUI_platform[r]])
           /\ gui_recording' = [gui_recording EXCEPT ![r] =
                [total |-> gui_build_stats.total_builds,
                 success |-> success,
                 next |-> IF returncode = 0 THEN "finally" ELSE "failed_ui"]]
    /\ gui_pc' = [gui_pc EXCEPT ![r] = "record"]
    /\ gui_appended' = [gui_appended EXCEPT ![r] = @ + 1]
    /\ UNCHANGED <<gui_build_stats, gui_file, gui_started>>
    /\ GUI_frame

\* record_build_attempt lines 95-109: total_builds is written, the other
\* counters and the average are updated, and the history is saved.
GUI_record_build_attempt(r) ==
    /\ app = "master_gui_app"
    /\ gui_pc[r] = "record"
    /\ LET stats == GUI_recorded(gui_build_history, gui_build_stats,
                                 gui_recording[r].total,
                                 gui_recording[r].success)
       IN /\ gui_build_stats' = stats
          /\ gui_file' = GUI_saved(gui_build_history, stats)
    /\ gui_pc' = [gui_pc EXCEPT ![r] = gui_recording[r].next]
    /\ gui_recording' = [gui_recording EXCEPT ![r] = GUI_not_recording]
    /\ gui_last' = GUI_no_child
    /\ UNCHANGED <<gui_build_history, gui_proc, gui_appended, gui_started>>
    /\ GUI_frame

\* run lines 584-585: status_var.set and messagebox.showerror on the worker
\* thread, after the failed attempt was recorded; either may raise.
GUI_failed_ui(r) ==
    /\ app = "master_gui_app"
    /\ gui_pc[r] = "failed_ui"
    /\ \E raised \in BOOLEAN :
        gui_pc' = [gui_pc EXCEPT ![r] = IF raised THEN "except" ELSE "finally"]
    /\ UNCHANGED <<gui_build_history, gui_build_stats, gui_file, gui_proc,
                   gui_appended, gui_recording,
                   gui_last, gui_started>>
    /\ GUI_frame

\* run lines 587-593 and record_build_attempt lines 84-95: the handler
\* records a failed attempt.
GUI_except(r) ==
    /\ app = "master_gui_app"
    /\ gui_pc[r] = "except"
    /\ \E duration \in Durations :
        gui_build_history' =
            GUI_append(gui_build_history,
                       [success |-> FALSE, duration |-> duration,
                        timestamp |-> GUI_time,
                            platform |-> GUI_platform[r]])
    /\ gui_recording' = [gui_recording EXCEPT ![r] =
            [total |-> gui_build_stats.total_builds, success |-> FALSE,
             next |-> "finally"]]
    /\ gui_appended' = [gui_appended EXCEPT ![r] = @ + 1]
    /\ gui_pc' = [gui_pc EXCEPT ![r] = "record"]
    /\ UNCHANGED <<gui_build_stats, gui_file, gui_proc, gui_last, gui_started>>
    /\ GUI_frame

\* run lines 596-599.
GUI_finally(r) ==
    /\ app = "master_gui_app"
    /\ gui_pc[r] = "finally"
    /\ gui_pc' = [gui_pc EXCEPT ![r] = "done"]
    /\ UNCHANGED <<gui_build_history, gui_build_stats, gui_file, gui_proc,
                   gui_appended, gui_recording,
                   gui_last, gui_started>>
    /\ GUI_frame

\* _clear_build_history lines 773-785, confirmed by the user.
GUI_clear_build_history ==
    /\ app = "master_gui_app"
    /\ gui_build_history # GUI_empty_history
    /\ gui_build_history' = GUI_empty_history
    /\ gui_build_stats' = GUI_default_stats
    /\ gui_file' = GUI_saved(GUI_empty_history, GUI_default_stats)
    /\ UNCHANGED <<gui_pc, gui_proc, gui_appended, gui_recording,
                   gui_last, gui_started>>
    /\ GUI_frame

\* The application is closed and started again: __init__ lines 44-55 with
\* load_build_history.
GUI_restart ==
    /\ app = "master_gui_app"
    /\ \A r \in BuildIds : gui_pc[r] \in {"none", "done"}
    /\ gui_started > 0
    /\ gui_build_history' = GUI_loaded(gui_file).history
    /\ gui_build_stats' = GUI_loaded(gui_file).stats
    /\ UNCHANGED <<gui_file, gui_pc, gui_proc, gui_appended, gui_recording,
                   gui_last,
                   gui_started>>
    /\ GUI_frame

GUI_Next ==
    \/ GUI_run_command_async
    \/ \E r \in BuildIds : GUI_spawn(r)
    \/ \E r \in BuildIds : GUI_run_raises(r)
    \/ \E r \in BuildIds : GUI_run_returns(r)
    \/ \E r \in BuildIds : GUI_record_build_attempt(r)
    \/ \E r \in BuildIds : GUI_failed_ui(r)
    \/ \E r \in BuildIds : GUI_except(r)
    \/ \E r \in BuildIds : GUI_finally(r)
    \/ GUI_clear_build_history
    \/ GUI_restart

(***************************************************************************)
(* master_gui_app.py MasterGUIApp: the command queue (add_to_queue,        *)
(* process_queue and the callback of run_command_async), explored apart    *)
(* from the build history of the same class.                               *)
(*                                                                         *)
(* Thread 0 is the Tk main thread, which calls add_to_queue; thread c is   *)
(* the worker run_command_async starts for the c-th command added, which   *)
(* calls process_queue as its callback.  No lock is taken anywhere, so     *)
(* every read and write of command_queue and is_processing_queue is a      *)
(* step of its own.                                                        *)
(*                                                                         *)
(* __init__ (lines 19-55) assigns neither self.command_queue nor           *)
(* self.is_processing_queue, and no other line of the file does before     *)
(* line 493 reads the first.  gq_attrs tells whether the object has the    *)
(* two attributes: FALSE is the object as __init__ leaves it, TRUE an      *)
(* object whose owner assigned [] and False to them.                       *)
(***************************************************************************)
GQ_Threads == 0..MaxBuilds

GQ_frame ==
    UNCHANGED <<app, log_vars, bm_vars, enh_vars, ctl_vars, ma_vars,
                ism_vars, gui_vars, bo_vars, ci_vars>>

GQ_Init ==
    /\ gq_attrs \in (IF app = "master_gui_app_queue" THEN BOOLEAN ELSE {FALSE})
    /\ gq_command_queue = <<>>
    /\ gq_is_processing_queue = FALSE
    /\ gq_pc = [t \in GQ_Threads |-> IF t = 0 THEN "idle" ELSE "none"]
    /\ gq_added = 0
    /\ gq_started = <<>>
    /\ gq_raised = "none"

\* add_to_queue line 493 on an object without the attribute: evaluating
\* self.command_queue raises AttributeError; nothing is appended, nothing
\* is started.
GQ_add_to_queue_raises ==
    /\ app = "master_gui_app_queue"
    /\ ~gq_attrs
    /\ gq_pc[0] = "idle"
    /\ gq_added < MaxBuilds
    /\ gq_added' = gq_added + 1
    /\ gq_raised' = "AttributeError"
    /\ UNCHANGED <<gq_attrs, gq_command_queue, gq_is_processing_queue, gq_pc,
                   gq_started>>
    /\ GQ_frame

\* add_to_queue lines 493-494: the command is appended and logged.
GQ_add_to_queue ==
    /\ app = "master_gui_app_queue"
    /\ gq_attrs
    /\ gq_pc[0] = "idle"
    /\ gq_added < MaxBuilds
    /\ gq_added' = gq_added + 1
    /\ gq_command_queue' = Append(gq_command_queue, gq_added + 1)
    /\ gq_pc' = [gq_pc EXCEPT ![0] = "add_check"]
    /\ gq_raised' = "none"
    /\ UNCHANGED <<gq_attrs, gq_is_processing_queue, gq_started>>
    /\ GQ_frame

\* add_to_queue lines 495-496: process_queue is called only when the flag
\* reads False.
GQ_add_to_queue_check ==
    /\ app = "master_gui_app_queue"
    /\ gq_pc[0] = "add_check"
    /\ gq_pc' = [gq_pc EXCEPT ![0] = IF gq_is_processing_queue THEN "idle"
                                     ELSE "process_queue"]
    /\ UNCHANGED <<gq_attrs, gq_command_queue, gq_is_processing_queue,
                   gq_added, gq_started, gq_raised>>
    /\ GQ_frame

\* Where a thread is when its process_queue call has returned.
GQ_returned(t) == IF t = 0 THEN "idle" ELSE "done"

\* process_queue line 500: the test of the queue.
GQ_process_queue_test(t) ==
    /\ app = "master_gui_app_queue"
    /\ gq_pc[t] = "process_queue"
    /\ gq_pc' = [gq_pc EXCEPT ![t] = IF gq_command_queue = <<>> THEN "clear"
                                     ELSE "set"]
    /\ UNCHANGED <<gq_attrs, gq_command_queue, gq_is_processing_queue,
                   gq_added, gq_started, gq_raised>>
    /\ GQ_frame

\* process_queue lines 501-502: the queue was empty at line 500; the flag
\* is cleared and the call returns.
GQ_process_queue_clear(t) ==
    /\ app = "master_gui_app_queue"
    /\ gq_pc[t] = "clear"
    /\ gq_is_processing_queue' = FALSE
    /\ gq_pc' = [gq_pc EXCEPT ![t] = GQ_returned(t)]
    /\ UNCHANGED <<gq_attrs, gq_command_queue, gq_added, gq_started,
                   gq_raised>>
    /\ GQ_frame

\* process_queue line 504.
GQ_process_queue_set(t) ==
    /\ app = "master_gui_app_queue"
    /\ gq_pc[t] = "set"
    /\ gq_is_processing_queue' = TRUE
    /\ gq_pc' = [gq_pc EXCEPT ![t] = "pop"]
    /\ UNCHANGED <<gq_attrs, gq_command_queue, gq_added, gq_started,
                   gq_raised>>
    /\ GQ_frame

\* process_queue lines 505-506 and run_command_async lines 601-602: the
\* first command leaves the queue and a thread is started for it, with
\* process_queue as its callback.  pop(0) of an empty list raises IndexError.
GQ_process_queue_pop(t) ==
    /\ app = "master_gui_app_queue"
    /\ gq_pc[t] = "pop"
    /\ IF gq_command_queue = <<>>
       THEN /\ gq_pc' = [gq_pc EXCEPT ![t] = GQ_returned(t)]
            /\ gq_raised' = "IndexError"
            /\ UNCHANGED <<gq_command_queue, gq_started>>
       ELSE /\ gq_command_queue' = Tail(gq_command_queue)
            /\ gq_started' = Append(gq_started, Head(gq_command_queue))
            /\ gq_pc' = [gq_pc EXCEPT ![t] = GQ_returned(t),
                                      ![Head(gq_command_queue)] = "run"]
            /\ UNCHANGED gq_raised
    /\ UNCHANGED <<gq_attrs, gq_is_processing_queue, gq_added>>
    /\ GQ_frame

\* run_command_async lines 512-599 in the worker of command c: the command
\* returns 0, returns another code or raises; in each case the finally
\* clause (lines 596-599) calls the callback, process_queue.
GQ_run_ends(c) ==
    /\ app = "master_gui_app_queue"
    /\ c # 0
    /\ gq_pc[c] = "run"
    /\ gq_pc' = [gq_pc EXCEPT ![c] = "process_queue"]
    /\ UNCHANGED <<gq_attrs, gq_command_queue, gq_is_processing_queue,
                   gq_added, gq_started, gq_raised>>
    /\ GQ_frame

GQ_Next ==
    \/ GQ_add_to_queue_raises
    \/ GQ_add_to_queue
    \/ GQ_add_to_queue_check
    \/ \E t \in GQ_Threads : GQ_process_queue_test(t)
    \/ \E t \in GQ_Threads : GQ_process_queue_clear(t)
    \/ \E t \in GQ_Threads : GQ_process_queue_set(t)
    \/ \E t \in GQ_Threads : GQ_process_queue_pop(t)
    \/ \E c \in GQ_Threads : GQ_run_ends(c)

(***************************************************************************)
(* build_optimizer_enhanced.py : BuildOptimizer                            *)
(***************************************************************************)
\* CheckStatus (lines 18-22).
BO_Statuses == {"success", "warning", "error", "info"}

\* __init__ line 34: self.results = [].  The list is kept as the number of
\* its results of each status; nothing in generate_report depends on their
\* order.
BO_Init ==
    /\ bo_results = [s \in BO_Statuses |-> 0]
    /\ bo_pc = "checking"
    /\ bo_report = [raised |-> FALSE, status |-> "none"]

BO_frame ==
    UNCHANGED <<app, gq_vars, log_vars, bm_vars, enh_vars, ctl_vars, ma_vars,
                ism_vars, gui_vars, ci_vars>>

\* The check_ methods run_all_checks calls (lines 55-68): a CheckResult of
\* some status is appended to self.results.
BO_check ==
    /\ app = "build_optimizer_enhanced"
    /\ bo_pc = "checking"
    /\ \E s \in BO_Statuses :
        /\ bo_results[s] < MaxResults
        /\ bo_results' = [bo_results EXCEPT ![s] = @ + 1]
    /\ UNCHANGED <<bo_pc, bo_report>>
    /\ BO_frame

\* generate_report line 767:  len([r for r in r.results if ...]).  The
\* iterable r.results is evaluated outside the comprehension, where no
\* name r is bound: NameError, whatever the results are.
BO_info_count(results) == "NameError"

\* generate_report line 782: the status of the summary.
BO_status(error_count) ==
    IF error_count = 0 THEN "PASS"
    ELSE IF error_count > 10 THEN "FAIL"
    ELSE "WARNING"

\* run_all_checks lines 70-71 with generate_report lines 761-800.
BO_generate_report ==
    /\ app = "build_optimizer_enhanced"
    /\ bo_pc = "checking"
    /\ bo_pc' = "generated"
    /\ bo_report' =
          IF BO_info_count(bo_results) = "NameError"
          THEN [raised |-> TRUE, status |-> "none"]
          ELSE [raised |-> FALSE,
                status |-> BO_status(bo_results["error"])]
    /\ UNCHANGED bo_results
    /\ BO_frame

BO_Next ==
    \/ BO_check
    \/ BO_generate_report

(***************************************************************************)
(* ci_cd_analyzer.py : CICDAnalyzer, the sensitive data patterns           *)
(***************************************************************************)
\* The keywords of sensitive_patterns (lines 271-277) and of the five re.sub
\* calls of fix_sensitive_data_found (lines 831-835), in the order of the
\* source.  A keyword is the sequence of its literal parts; [_-]* stands
\* between two parts.
CI_sensitive_keywords == <<
    \* password
    <<<<"p", "a", "s", "s", "w", "o", "r", "d">>>>,
    \* api key
    <<<<"a", "p", "i">>, <<"k", "e", "y">>>>,
    \* secret
    <<<<"s", "e", "c", "r", "e", "t">>>>,
    \* token
    <<<<"t", "o", "k", "e", "n">>>>,
    \* private key
    <<<<"p", "r", "i", "v", "a", "t", "e">>, <<"k", "e", "y">>>> >>

\* The lines of the .dart file of a project.
CI_DartLines == <<
    \* 1: password = "abc"
    <<"p", "a", "s", "s", "w", "o", "r", "d", " ", "=", " ", "\"", "a",
      "b", "c", "\"">>,
    \* 2: String name = "x";
    <<"S", "t", "r", "i", "n", "g", " ", "n", "a", "m", "e", " ", "=", " ",
      "\"", "x", "\"", ";">>,
    \* 3: API_KEY='k'
    <<"A", "P", "I", "_", "K", "E", "Y", "=", "'", "k", "'">> >>

\* The first position from i on of a line that holds no character of a set
\* (the greedy \s* and [_-]* of the patterns).
RECURSIVE CI_skip(_, _, _)
CI_skip(line, i, set) ==
    IF i <= Len(line) /\ line[i] \in set THEN CI_skip(line, i + 1, set) ELSE i

\* The characters of the lines of a .dart file, before and after a fix.
CI_DartChars ==
    {"*"} \cup UNION {{CI_DartLines[l][i] : i \in 1..Len(CI_DartLines[l])} :
                        l \in 1..Len(CI_DartLines)}

\* str.lower() on these characters, computed once.
CI_lower == [c \in CI_DartChars |-> LowerChar(c)]

\* The literal part of a keyword at position i, under re.IGNORECASE.
CI_literal_at(line, i, part) ==
    /\ i + Len(part) - 1 <= Len(line)
    /\ \A j \in 1..Len(part) : CI_lower[line[i + j - 1]] = part[j]

\* keyword\s*=\s*['"] matched at position i: the position of the opening
\* quote, 0 when the pattern does not match there.
RECURSIVE CI_open_quote(_, _, _, _)
CI_open_quote(line, i, keyword, n) ==
    IF ~CI_literal_at(line, i, keyword[n]) THEN 0
    ELSE IF n < Len(keyword)
    THEN CI_open_quote(line, CI_skip(line, i + Len(keyword[n]), {"_", "-"}),
                       keyword, n + 1)
    ELSE LET eq == CI_skip(line, i + Len(keyword[n]), {" "})
             q  == CI_skip(line, eq + 1, {" "})
         IN IF /\ eq <= Len(line) /\ line[eq] = "="
               /\ q <= Len(line) /\ line[q] \in {"'", "\""}
            THEN q ELSE 0

\* re.search(pattern, content, re.IGNORECASE) of line 284 on the lines of a
\* file none of which ends inside a match.
CI_sensitive_in(content, keyword) ==
    \E l \in 1..Len(content) : \E i \in 1..Len(content[l]) :
        CI_open_quote(content[l], i, keyword, 1) # 0

\* The position of the closing quote of (.*?)(['"]) after the opening quote
\* at position q, 0 when the line holds none.
CI_close_quote(line, q) ==
    IF \E c \in (q + 1)..Len(line) : line[c] \in {"'", "\""}
    THEN CHOOSE c \in (q + 1)..Len(line) :
            /\ line[c] \in {"'", "\""}
            /\ \A b \in (q + 1)..(c - 1) : line[b] \notin {"'", "\""}
    ELSE 0

\* The whole pattern of a re.sub call matches at position i.
CI_sub_matches(line, i, keyword) ==
    \E q \in {CI_open_quote(line, i, keyword, 1)} :
        q # 0 /\ CI_close_quote(line, q) # 0

\* The leftmost position from i on where the pattern of a re.sub call
\* matches, 0 when there is none.
RECURSIVE CI_leftmost(_, _, _)
CI_leftmost(line, i, keyword) ==
    IF i > Len(line) THEN 0
    ELSE IF CI_sub_matches(line, i, keyword) THEN i
    ELSE CI_leftmost(line, i + 1, keyword)

\* One match replaced by \1***\2***\3: q is its opening quote, c its
\* closing quote.
CI_replaced(line, from, q, c) ==
    SubSeq(line, from, q) \o <<"*", "*", "*">> \o
    SubSeq(line, q + 1, c - 1) \o <<"*", "*", "*">> \o <<line[c]>>

\* re.sub(r'(keyword\s*=\s*[\'"])(.*?)([\'"])', r'\1***\2***\3', line) on
\* the part of the line from position from on: every match, leftmost first.
RECURSIVE CI_sub(_, _, _)
CI_sub(line, from, keyword) ==
    LET i == CI_leftmost(line, from, keyword)
    IN IF i = 0 THEN SubSeq(line, from, Len(line))
       ELSE LET q == CI_open_quote(line, i, keyword, 1)
                c == CI_close_quote(line, q)
            IN CI_replaced(line, from, q, c) \o CI_sub(line, c + 1, keyword)

\* The five re.sub calls of lines 831-835 on one line, from the n-th on.
RECURSIVE CI_sub_all(_, _)
CI_sub_all(line, n) ==
    IF n > Len(CI_sensitive_keywords) THEN line
    ELSE CI_sub_all(CI_sub(line, 1, CI_sensitive_keywords[n]), n + 1)

\* What fix_sensitive_data_found writes back for the content it read (lines
\* 826-839).
RECURSIVE CI_fix_sensitive_data_found(_)
CI_fix_sensitive_data_found(content) ==
    IF content = <<>> THEN <<>>
    ELSE <<CI_sub_all(Head(content), 1)>> \o
         CI_fix_sensitive_data_found(Tail(content))

(***************************************************************************)
(* ci_cd_analyzer.py : CICDAnalyzer                                        *)
(*                                                                         *)
(* A file is the sequence of its lines, a line the sequence of its         *)
(* characters.  None of the patterns the rules look for holds a newline,   *)
(* so  p in content  is  p in some line.                                   *)
(***************************************************************************)
\* The content of a file of line numbers that does not exist: no file holds
\* a line 0.
Missing == <<0>>

\* The lines a workflow file is made of.  4 is the line fix_timeout_missing
\* inserts (line 453), 6 to 8 the lines fix_cache_missing inserts (lines
\* 481-483), 9 the line fix_error_handling_missing inserts (line 511), 10 to
\* 15 the lines fix_artifact_upload_missing inserts (lines 539-544).
CI_WorkflowLines == <<
    \* 1: name: CI
    <<"n", "a", "m", "e", ":", " ", "C", "I">>,
    \* 2: jobs:
    <<"j", "o", "b", "s", ":">>,
    \* 3:     steps:
    <<" ", " ", " ", " ", "s", "t", "e", "p", "s", ":">>,
    \* 4:     timeout-minutes: 30
    <<" ", " ", " ", " ", "t", "i", "m", "e", "o", "u", "t", "-", "m", "i",
      "n", "u", "t", "e", "s", ":", " ", "3", "0">>,
    \* 5:       - uses: subosito/flutter-action@v2
    <<" ", " ", " ", " ", " ", " ", "-", " ", "u", "s", "e", "s", ":", " ",
      "s", "u", "b", "o", "s", "i", "t", "o", "/", "f", "l", "u", "t", "t",
      "e", "r", "-", "a", "c", "t", "i", "o", "n", "@", "v", "2">>,
    \* 6:         cache: true
    <<" ", " ", " ", " ", " ", " ", " ", " ", "c", "a", "c", "h", "e", ":",
      " ", "t", "r", "u", "e">>,
    \* 7:         cache-key: flutter-${{ runner.os }}-${{ hashFiles('**/pubspec.lock') }}
    <<" ", " ", " ", " ", " ", " ", " ", " ", "c", "a", "c", "h", "e", "-",
      "k", "e", "y", ":", " ", "f", "l", "u", "t", "t", "e", "r", "-", "$",
      "{", "{", " ", "r", "u", "n", "n", "e", "r", ".", "o", "s", " ", "}",
      "}", "-", "$", "{", "{", " ", "h", "a", "s", "h", "F", "i", "l", "e",
      "s", "(", "'", "*", "*", "/", "p", "u", "b", "s", "p", "e", "c", ".",
      "l", "o", "c", "k", "'", ")", " ", "}", "}">>,
    \* 8:         cache-path: ${{ env.PUB_CACHE }}
    <<" ", " ", " ", " ", " ", " ", " ", " ", "c", "a", "c", "h", "e", "-",
      "p", "a", "t", "h", ":", " ", "$", "{", "{", " ", "e", "n", "v", ".",
      "P", "U", "B", "_", "C", "A", "C", "H", "E", " ", "}", "}">>,
    \* 9:     continue-on-error: true
    <<" ", " ", " ", " ", "c", "o", "n", "t", "i", "n", "u", "e", "-", "o",
      "n", "-", "e", "r", "r", "o", "r", ":", " ", "t", "r", "u", "e">>,
    \* 10:     - name: Upload build artifacts
    <<" ", " ", " ", " ", "-", " ", "n", "a", "m", "e", ":", " ", "U", "p",
      "l", "o", "a", "d", " ", "b", "u", "i", "l", "d", " ", "a", "r", "t",
      "i", "f", "a", "c", "t", "s">>,
    \* 11:       uses: actions/upload-artifact@v3
    <<" ", " ", " ", " ", " ", " ", "u", "s", "e", "s", ":", " ", "a", "c",
      "t", "i", "o", "n", "s", "/", "u", "p", "l", "o", "a", "d", "-", "a",
      "r", "t", "i", "f", "a", "c", "t", "@", "v", "3">>,
    \* 12:       with:
    <<" ", " ", " ", " ", " ", " ", "w", "i", "t", "h", ":">>,
    \* 13:         name: build-artifacts
    <<" ", " ", " ", " ", " ", " ", " ", " ", "n", "a", "m", "e", ":", " ",
      "b", "u", "i", "l", "d", "-", "a", "r", "t", "i", "f", "a", "c", "t",
      "s">>,
    \* 14:         path: build/
    <<" ", " ", " ", " ", " ", " ", " ", " ", "p", "a", "t", "h", ":", " ",
      "b", "u", "i", "l", "d", "/">>,
    \* 15:         retention-days: 30
    <<" ", " ", " ", " ", " ", " ", " ", " ", "r", "e", "t", "e", "n", "t",
      "i", "o", "n", "-", "d", "a", "y", "s", ":", " ", "3", "0">>,
    \* 16:       - run: flutter build apk
    <<" ", " ", " ", " ", " ", " ", "-", " ", "r", "u", "n", ":", " ", "f",
      "l", "u", "t", "t", "e", "r", " ", "b", "u", "i", "l", "d", " ", "a",
      "p", "k">> >>

\* The patterns analyze_workflow_structure and the workflow fixes look for
\* in a workflow file (lines 57-95, 451, 479, 509, 537).
CI_WorkflowPatterns ==
    ("timeout-minutes:" :>
      <<"t", "i", "m", "e", "o", "u", "t", "-", "m", "i", "n", "u", "t",
        "e", "s", ":">>) @@
    ("cache:" :>
      <<"c", "a", "c", "h", "e", ":">>) @@
    ("continue-on-error:" :>
      <<"c", "o", "n", "t", "i", "n", "u", "e", "-", "o", "n", "-", "e",
        "r", "r", "o", "r", ":">>) @@
    ("if: failure()" :>
      <<"i", "f", ":", " ", "f", "a", "i", "l", "u", "r", "e", "(", ")">>) @@
    ("uses: actions/upload-artifact@v3" :>
      <<"u", "s", "e", "s", ":", " ", "a", "c", "t", "i", "o", "n", "s",
        "/", "u", "p", "l", "o", "a", "d", "-", "a", "r", "t", "i", "f",
        "a", "c", "t", "@", "v", "3">>) @@
    ("jobs:" :>
      <<"j", "o", "b", "s", ":">>) @@
    ("steps:" :>
      <<"s", "t", "e", "p", "s", ":">>) @@
    ("uses: subosito/flutter-action@v2" :>
      <<"u", "s", "e", "s", ":", " ", "s", "u", "b", "o", "s", "i", "t",
        "o", "/", "f", "l", "u", "t", "t", "e", "r", "-", "a", "c", "t",
        "i", "o", "n", "@", "v", "2">>) @@
    ("flutter build" :>
      <<"f", "l", "u", "t", "t", "e", "r", " ", "b", "u", "i", "l", "d">>)

\* The lines pubspec.yaml is made of.  1, 4, 9, 10 and 11 are the lines the
\* pubspec fixes insert (lines 573, 604-605, 760, 863).
CI_PubspecLines == <<
    \* 1:   sdk: '>=2.17.0 <4.0.0'
    <<" ", " ", "s", "d", "k", ":", " ", "'", ">", "=", "2", ".", "1", "7",
      ".", "0", " ", "<", "4", ".", "0", ".", "0", "'">>,
    \* 2:   http: ^0.13.5
    <<" ", " ", "h", "t", "t", "p", ":", " ", "^", "0", ".", "1", "3", ".",
      "5">>,
    \* 3:   firebase_core: ^2.0.0
    <<" ", " ", "f", "i", "r", "e", "b", "a", "s", "e", "_", "c", "o", "r",
      "e", ":", " ", "^", "2", ".", "0", ".", "0">>,
    \* 4:   flutter_test:
    <<" ", " ", "f", "l", "u", "t", "t", "e", "r", "_", "t", "e", "s", "t",
      ":">>,
    \* 5:   flutter_lints: ^2.0.0
    <<" ", " ", "f", "l", "u", "t", "t", "e", "r", "_", "l", "i", "n", "t",
      "s", ":", " ", "^", "2", ".", "0", ".", "0">>,
    \* 6: environment:
    <<"e", "n", "v", "i", "r", "o", "n", "m", "e", "n", "t", ":">>,
    \* 7: dependencies:
    <<"d", "e", "p", "e", "n", "d", "e", "n", "c", "i", "e", "s", ":">>,
    \* 8: dev_dependencies:
    <<"d", "e", "v", "_", "d", "e", "p", "e", "n", "d", "e", "n", "c", "i",
      "e", "s", ":">>,
    \* 9:   flutter_lints: ^3.0.1
    <<" ", " ", "f", "l", "u", "t", "t", "e", "r", "_", "l", "i", "n", "t",
      "s", ":", " ", "^", "3", ".", "0", ".", "1">>,
    \* 10:   sdk: flutter
    <<" ", " ", "s", "d", "k", ":", " ", "f", "l", "u", "t", "t", "e", "r">>,
    \* 11:   cached_network_image: ^3.3.0
    <<" ", " ", "c", "a", "c", "h", "e", "d", "_", "n", "e", "t", "w", "o",
      "r", "k", "_", "i", "m", "a", "g", "e", ":", " ", "^", "3", ".", "3",
      ".", "0">> >>

\* The patterns the rules and the fixes look for in pubspec.yaml (lines
\* 112, 165-185, 346-364, 570-574, 758, 860-862).
CI_PubspecPatterns ==
    ("sdk:" :>
      <<"s", "d", "k", ":">>) @@
    ("flutter_lints:" :>
      <<"f", "l", "u", "t", "t", "e", "r", "_", "l", "i", "n", "t", "s", ":">>) @@
    ("flutter_test:" :>
      <<"f", "l", "u", "t", "t", "e", "r", "_", "t", "e", "s", "t", ":">>) @@
    ("build_runner:" :>
      <<"b", "u", "i", "l", "d", "_", "r", "u", "n", "n", "e", "r", ":">>) @@
    ("json_serializable:" :>
      <<"j", "s", "o", "n", "_", "s", "e", "r", "i", "a", "l", "i", "z",
        "a", "b", "l", "e", ":">>) @@
    ("firebase_core" :>
      <<"f", "i", "r", "e", "b", "a", "s", "e", "_", "c", "o", "r", "e">>) @@
    ("google_maps_flutter" :>
      <<"g", "o", "o", "g", "l", "e", "_", "m", "a", "p", "s", "_", "f",
        "l", "u", "t", "t", "e", "r">>) @@
    ("camera" :>
      <<"c", "a", "m", "e", "r", "a">>) @@
    ("video_player" :>
      <<"v", "i", "d", "e", "o", "_", "p", "l", "a", "y", "e", "r">>) @@
    ("cached_network_image:" :>
      <<"c", "a", "c", "h", "e", "d", "_", "n", "e", "t", "w", "o", "r",
        "k", "_", "i", "m", "a", "g", "e", ":">>) @@
    ("http:" :>
      <<"h", "t", "t", "p", ":">>) @@
    ("environment:" :>
      <<"e", "n", "v", "i", "r", "o", "n", "m", "e", "n", "t", ":">>) @@
    ("dependencies:" :>
      <<"d", "e", "p", "e", "n", "d", "e", "n", "c", "i", "e", "s", ":">>) @@
    ("dev_dependencies:" :>
      <<"d", "e", "v", "_", "d", "e", "p", "e", "n", "d", "e", "n", "c",
        "i", "e", "s", ":">>) @@
    ("}" :>
      <<"}">>)

\* p in line, for every line and pattern of the tables, computed once.
CI_workflow_line_has ==
    [l \in 1..Len(CI_WorkflowLines) |->
        [p \in DOMAIN CI_WorkflowPatterns |->
            Contains(CI_WorkflowLines[l], CI_WorkflowPatterns[p])]]

CI_pubspec_line_has ==
    [l \in 1..Len(CI_PubspecLines) |->
        [p \in DOMAIN CI_PubspecPatterns |->
            Contains(CI_PubspecLines[l], CI_PubspecPatterns[p])]]

\* p in content, for a workflow file and for pubspec.yaml.
CI_in_workflow(p, content) ==
    \E i \in 1..Len(content) : CI_workflow_line_has[content[i]][p]

CI_in_pubspec(p, content) ==
    \E i \in 1..Len(content) : CI_pubspec_line_has[content[i]][p]

\* find_line_number (lines 376-382); 0 stands for None.
CI_find_line_number(content, pattern) ==
    IF CI_in_workflow(pattern, content)
    THEN CHOOSE i \in 1..Len(content) :
            /\ CI_workflow_line_has[content[i]][pattern]
            /\ \A j \in 1..(i - 1) : ~CI_workflow_line_has[content[j]][pattern]
    ELSE 0

\* issues.append(...) under a condition.
CI_issue_if(cond, issue) == IF cond THEN <<issue>> ELSE <<>>

\* The workflow files of the model.  The project holds the file that is
\* analysed and no other workflow file; deploy.yml is a file that does not
\* exist, .github/workflows the directory that is the default argument of
\* analyze_ci_cd_failure (line 29).
CI_ci_yml == ".github/workflows/ci.yml"

CI_build_yml == ".github/workflows/build.yml"

CI_deploy_yml == ".github/workflows/deploy.yml"

CI_workflows_dir == ".github/workflows"

\* The lines a workflow file holds before any fix, and the files of at most
\* MaxWorkflowLines of them, each line at most once and in the order of the
\* table (jobs, steps, timeout, flutter action, build).
CI_InitialLines == {2, 3, 4, 5, 16}

CI_Workflows ==
    {w \in UNION {[1..n -> CI_InitialLines] : n \in 0..MaxWorkflowLines} :
        \A i \in 1..(Len(w) - 1) : w[i] < w[i + 1]}

\* The projects of the model: pubspec.yaml (Missing or its lines), the test
\* directory, the integration_test directory, the lines of lib/config.dart
\* (the only .dart file outside the test directories, empty when the
\* project has none) and the
\* content of .github/workflows/ci.yml in a project whose analysed workflow
\* is another file (Missing when the project has no such file).
CI_Projects ==
    { [pubspec |-> Missing, test |-> "missing", integration_test |-> FALSE,
       dart |-> <<>>, other_ci_yml |-> Missing],
      [pubspec |-> <<>>, test |-> "empty", integration_test |-> FALSE,
       dart |-> <<CI_DartLines[1]>>, other_ci_yml |-> Missing],
      [pubspec |-> <<1, 2, 3>>, test |-> "tests", integration_test |-> TRUE,
       dart |-> <<>>, other_ci_yml |-> Missing],
      [pubspec |-> <<1, 4, 5>>, test |-> "tests", integration_test |-> FALSE,
       dart |-> <<CI_DartLines[2]>>, other_ci_yml |-> Missing],
      [pubspec |-> <<6, 7, 2, 8>>, test |-> "missing",
       integration_test |-> FALSE,
       dart |-> <<CI_DartLines[3]>>, other_ci_yml |-> <<2>>] }

\* What subprocess.run of a flutter command does: "missing" raises (no
\* flutter executable), "clean" returns 0 and reports nothing, "dirty"
\* returns 0 from flutter pub outdated with one outdated package, 0 from
\* flutter pub deps with 'http: ^0.13.5' in its output, and 1 from
\* flutter test.
CI_Tools == {"missing", "clean", "dirty"}

\* analyze_workflow_structure (lines 50-97).  An issue is kept as its type,
\* severity, line and file; the issues of this rule have no file.
CI_analyze_workflow_structure(content) ==
    CI_issue_if(~CI_in_workflow("timeout-minutes:", content),
        [type |-> "timeout_missing", severity |-> "medium",
         line |-> CI_find_line_number(content, "jobs:")]) \o
    CI_issue_if(~CI_in_workflow("cache:", content),
        [type |-> "cache_missing", severity |-> "medium",
         line |-> CI_find_line_number(content,
                                      "uses: subosito/flutter-action@v2")]) \o
    CI_issue_if(/\ ~CI_in_workflow("continue-on-error:", content)
                /\ ~CI_in_workflow("if: failure()", content),
        [type |-> "error_handling_missing", severity |-> "high",
         line |-> CI_find_line_number(content, "steps:")]) \o
    CI_issue_if(~CI_in_workflow("uses: actions/upload-artifact@v3", content),
        [type |-> "artifact_upload_missing", severity |-> "medium",
         line |-> CI_find_line_number(content, "flutter build")])

\* analyze_dependency_issues (lines 99-150).
CI_analyze_dependency_issues(project, tool) ==
    IF project.pubspec = Missing THEN <<>>
    ELSE
        CI_issue_if(~CI_in_pubspec("sdk:", project.pubspec),
            [type |-> "sdk_constraint_missing", severity |-> "high",
             file |-> "pubspec.yaml"]) \o
        CI_issue_if(tool = "dirty",
            [type |-> "outdated_dependencies", severity |-> "medium",
             file |-> "pubspec.yaml"]) \o
        CI_issue_if(tool = "missing",
            [type |-> "dependency_check_failed", severity |-> "low",
             file |-> "pubspec.yaml"])

\* analyze_build_issues (lines 152-195).
CI_analyze_build_issues(project) ==
    IF project.pubspec = Missing THEN <<>>
    ELSE
        CI_issue_if(~CI_in_pubspec("flutter_lints:", project.pubspec),
            [type |-> "linting_missing", severity |-> "low",
             file |-> "pubspec.yaml"]) \o
        CI_issue_if(~CI_in_pubspec("flutter_test:", project.pubspec),
            [type |-> "test_dependencies_missing", severity |-> "medium",
             file |-> "pubspec.yaml"]) \o
        CI_issue_if(/\ ~CI_in_pubspec("build_runner:", project.pubspec)
                    /\ CI_in_pubspec("json_serializable:", project.pubspec),
            [type |-> "build_runner_missing", severity |-> "medium",
             file |-> "pubspec.yaml"])

\* analyze_test_issues (lines 197-263).
CI_analyze_test_issues(project, tool) ==
    CI_issue_if(project.test = "missing",
        [type |-> "test_directory_missing", severity |-> "high",
         file |-> "test/"]) \o
    CI_issue_if(project.test = "empty",
        [type |-> "no_test_files", severity |-> "high", file |-> "test/"]) \o
    CI_issue_if(~project.integration_test,
        [type |-> "integration_test_missing", severity |-> "medium",
         file |-> "integration_test/"]) \o
    CI_issue_if(tool = "dirty",
        [type |-> "test_coverage_failed", severity |-> "medium",
         file |-> "test/"]) \o
    CI_issue_if(tool = "missing",
        [type |-> "test_coverage_check_failed", severity |-> "low",
         file |-> "test/"])

\* The loop of lines 282-291 over the patterns from the n-th on: one issue
\* for every pattern found in the file.
RECURSIVE CI_sensitive_issues(_, _)
CI_sensitive_issues(content, n) ==
    IF n > Len(CI_sensitive_keywords) THEN <<>>
    ELSE CI_issue_if(CI_sensitive_in(content, CI_sensitive_keywords[n]),
            [type |-> "sensitive_data_found", severity |-> "high",
             file |-> "lib/config.dart"]) \o
         CI_sensitive_issues(content, n + 1)

\* analyze_security_issues (lines 265-331).  The sample tests the fixes
\* write into the test directories hold none of the patterns.
CI_analyze_security_issues(project, tool) ==
    CI_sensitive_issues(project.dart, 1) \o
    CI_issue_if(tool = "dirty",
        [type |-> "vulnerable_dependency", severity |-> "high",
         file |-> "pubspec.yaml"]) \o
    CI_issue_if(tool = "missing",
        [type |-> "dependency_security_check_failed", severity |-> "low",
         file |-> "pubspec.yaml"])

\* analyze_performance_issues line 364 reads the local content, which is
\* bound at line 343 only when pubspec.yaml exists: UnboundLocalError
\* otherwise.
CI_performance_raises(project) == project.pubspec = Missing

\* heavy_packages (lines 346-351).
CI_heavy_packages ==
    <<"firebase_core", "google_maps_flutter", "camera", "video_player">>

\* The loop of lines 353-361 over the packages from the k-th on.  The issue
\* has a key "lazy" where the other issues have "severity".
RECURSIVE CI_heavy_issues(_, _)
CI_heavy_issues(content, k) ==
    IF k > Len(CI_heavy_packages) THEN <<>>
    ELSE CI_issue_if(CI_in_pubspec(CI_heavy_packages[k], content),
            [type |-> "heavy_dependency", lazy |-> "medium",
             file |-> "pubspec.yaml"]) \o
         CI_heavy_issues(content, k + 1)

\* analyze_performance_issues (lines 333-374) when pubspec.yaml exists.
CI_analyze_performance_issues(project) ==
    CI_heavy_issues(project.pubspec, 1) \o
    CI_issue_if(/\ ~CI_in_pubspec("cached_network_image:", project.pubspec)
                /\ CI_in_pubspec("http:", project.pubspec),
        [type |-> "image_caching_missing", severity |-> "medium",
         file |-> "pubspec.yaml"])

\* The issues the first five rules of analyze_ci_cd_failure extend the
\* report with (lines 41-45), in the order of the calls.
CI_first_rules(content, project, tool) ==
    CI_analyze_workflow_structure(content) \o
    CI_analyze_dependency_issues(project, tool) \o
    CI_analyze_build_issues(project) \o
    CI_analyze_test_issues(project, tool) \o
    CI_analyze_security_issues(project, tool)

\* The loop of fix_timeout_missing (lines 450-455) over the lines from the
\* k-th on.
RECURSIVE CI_timeout_lines(_, _)
CI_timeout_lines(lines, k) ==
    IF k > Len(lines) THEN <<>>
    ELSE (IF \/ CI_workflow_line_has[lines[k]]["jobs:"]
             \/ CI_workflow_line_has[lines[k]]["steps:"]
          THEN <<lines[k], 4>>
          ELSE <<lines[k]>>) \o CI_timeout_lines(lines, k + 1)

\* What fix_timeout_missing writes back for the content it read.
CI_fix_timeout_missing(content) == CI_timeout_lines(content, 1)

\* The loop of fix_cache_missing (lines 478-485).
RECURSIVE CI_cache_lines(_, _)
CI_cache_lines(lines, k) ==
    IF k > Len(lines) THEN <<>>
    ELSE (IF CI_workflow_line_has[lines[k]]["uses: subosito/flutter-action@v2"]
          THEN <<lines[k], 6, 7, 8>>
          ELSE <<lines[k]>>) \o CI_cache_lines(lines, k + 1)

\* What fix_cache_missing writes back for the content it read.
CI_fix_cache_missing(content) == CI_cache_lines(content, 1)

\* issue.get("file", ".github/workflows/ci.yml") (lines 439, 467).
CI_fix_file(issue) ==
    IF "file" \in DOMAIN issue THEN issue.file ELSE CI_ci_yml



\* The loop shared by fix_error_handling_missing (lines 508-513),
\* fix_artifact_upload_missing (lines 536-546), fix_linting_missing (lines
\* 569-577), fix_test_dependencies_missing (lines 600-609) and
\* fix_sdk_constraint_missing (lines 757-762), over the lines from the k-th
\* on: the inserted lines follow every line that holds the pattern.  has is
\* the table of the file's lines.
RECURSIVE CI_insert_after(_, _, _, _, _)
CI_insert_after(has, lines, pattern, inserted, k) ==
    IF k > Len(lines) THEN <<>>
    ELSE (IF has[lines[k]][pattern] THEN <<lines[k]>> \o inserted
          ELSE <<lines[k]>>) \o
         CI_insert_after(has, lines, pattern, inserted, k + 1)

\* The loop of fix_image_caching_missing (lines 857-865) over the lines from
\* the k-th on: a line that holds 'dependencies:' is not written back, and
\* every later line without 'cached_network_image:' and '}' is replaced by
\* the cached_network_image line.
RECURSIVE CI_image_caching_lines(_, _, _)
CI_image_caching_lines(lines, k, in_dependencies) ==
    IF k > Len(lines) THEN <<>>
    ELSE IF CI_pubspec_line_has[lines[k]]["dependencies:"]
    THEN CI_image_caching_lines(lines, k + 1, TRUE)
    ELSE (IF /\ in_dependencies
             /\ ~CI_pubspec_line_has[lines[k]]["cached_network_image:"]
             /\ ~CI_pubspec_line_has[lines[k]]["}"]
          THEN <<11>>
          ELSE <<lines[k]>>) \o
         CI_image_caching_lines(lines, k + 1, in_dependencies)

\* A fix of a workflow file (lines 437-548) on the files fs of the project:
\* the file of the issue is read, rewritten by fixed and the text added is
\* returned; open raises when the project has no such file and the text
\* failed is returned.
CI_workflow_fix(fs, issue, fixed(_), added, failed) ==
    IF CI_fix_file(issue) = ci_workflow_file
    THEN [fs |-> [fs EXCEPT !.workflow = fixed(@)], result |-> added]
    ELSE IF CI_fix_file(issue) = CI_ci_yml /\ fs.project.other_ci_yml # Missing
    THEN [fs |-> [fs EXCEPT !.project.other_ci_yml = fixed(@)],
          result |-> added]
    ELSE [fs |-> fs, result |-> failed]

\* A fix of pubspec.yaml (lines 550-617, 745-770, 845-873).
CI_pubspec_fix(fs, fixed(_), added, failed) ==
    IF fs.project.pubspec = Missing
    THEN [fs |-> fs, result |-> failed]
    ELSE [fs |-> [fs EXCEPT !.project.pubspec = fixed(@)], result |-> added]

\* fix_error_handling_missing (lines 495-521).
CI_fix_error_handling_missing(content) ==
    CI_insert_after(CI_workflow_line_has, content, "steps:", <<9>>, 1)

\* fix_artifact_upload_missing (lines 523-554).
CI_fix_artifact_upload_missing(content) ==
    CI_insert_after(CI_workflow_line_has, content, "flutter build",
                    <<10, 11, 12, 13, 14, 15>>, 1)

\* fix_linting_missing (lines 556-585).
CI_fix_linting_missing(content) ==
    CI_insert_after(CI_pubspec_line_has, content, "dev_dependencies:",
                    <<9>>, 1)

\* fix_test_dependencies_missing (lines 587-617).
CI_fix_test_dependencies_missing(content) ==
    CI_insert_after(CI_pubspec_line_has, content, "dev_dependencies:",
                    <<4, 10>>, 1)

\* fix_sdk_constraint_missing (lines 745-770).
CI_fix_sdk_constraint_missing(content) ==
    CI_insert_after(CI_pubspec_line_has, content, "environment:", <<1>>, 1)

\* fix_image_caching_missing (lines 845-873).
CI_fix_image_caching_missing(content) ==
    CI_image_caching_lines(content, 1, FALSE)

\* fix_build_runner_missing (lines 619-648): line 637 calls the list
\* modified_lines, a TypeError, on the first line that holds
\* 'dev_dependencies:', before anything is written.
CI_fix_build_runner_missing(fs) ==
    IF \/ fs.project.pubspec = Missing
       \/ CI_in_pubspec("dev_dependencies:", fs.project.pubspec)
    THEN [fs |-> fs, result |-> "Failed to add build_runner"]
    ELSE [fs |-> fs, result |-> "Added build_runner to dev_dependencies"]

\* The issue types apply_fix_for_issue has a fix for (lines 402-433).
CI_FixTypes ==
    {"timeout_missing", "cache_missing", "error_handling_missing",
     "artifact_upload_missing", "linting_missing",
     "test_dependencies_missing", "build_runner_missing",
     "test_directory_missing", "no_test_files", "integration_test_missing",
     "sdk_constraint_missing", "outdated_dependencies",
     "vulnerable_dependency", "sensitive_data_found",
     "image_caching_missing", "heavy_dependency"}

\* apply_fix_for_issue (lines 398-435) on the files fs of the project: the
\* files after the fix and the text returned, "None" for an issue without
\* fix.  fix_test_directory_missing, fix_no_test_files and
\* fix_integration_test_missing (lines 650-743) write sample tests;
\* fix_outdated_dependencies (lines 772-789) runs flutter pub upgrade;
\* fix_vulnerable_dependency (lines 791-814) raises in subprocess.run or in
\* parse_package_version, whose line 913 reads the unbound name package;
\* fix_heavy_dependency (lines 875-907) reads the unbound name pubs_path at
\* line 883.
CI_apply_fix_for_issue(fs, issue, tool) ==
    CASE issue.type = "timeout_missing" ->
            CI_workflow_fix(fs, issue, CI_fix_timeout_missing,
                "Added timeout-minutes: 30 to jobs", "Failed to fix timeout")
      [] issue.type = "cache_missing" ->
            CI_workflow_fix(fs, issue, CI_fix_cache_missing,
                "Added Flutter caching to workflow", "Failed to add caching")
      [] issue.type = "error_handling_missing" ->
            CI_workflow_fix(fs, issue, CI_fix_error_handling_missing,
                "Added continue-on-error: true to steps",
                "Failed to add error handling")
      [] issue.type = "artifact_upload_missing" ->
            CI_workflow_fix(fs, issue, CI_fix_artifact_upload_missing,
                "Added artifact upload to workflow",
                "Failed to add artifact upload")
      [] issue.type = "linting_missing" ->
            CI_pubspec_fix(fs, CI_fix_linting_missing,
                "Added flutter_lints to dev_dependencies",
                "Failed to add linting")
      [] issue.type = "test_dependencies_missing" ->
            CI_pubspec_fix(fs, CI_fix_test_dependencies_missing,
                "Added flutter_test to dev_dependencies",
                "Failed to add test dependencies")
      [] issue.type = "build_runner_missing" ->
            CI_fix_build_runner_missing(fs)
      [] issue.type = "test_directory_missing" ->
            [fs |-> [fs EXCEPT !.project.test = "tests"],
             result |-> "Created test directory with sample test"]
      [] issue.type = "no_test_files" ->
            [fs |-> [fs EXCEPT !.project.test =
                        IF @ = "missing" THEN @ ELSE "tests"],
             result |-> IF fs.project.test = "missing"
                        THEN "Failed to create test files"
                        ELSE "Created 2 sample test files"]
      [] issue.type = "integration_test_missing" ->
            [fs |-> [fs EXCEPT !.project.integration_test = TRUE],
             result |-> "Created integration_test directory with sample test"]
      [] issue.type = "sdk_constraint_missing" ->
            CI_pubspec_fix(fs, CI_fix_sdk_constraint_missing,
                "Added SDK constraint to pubspec.yaml",
                "Failed to add SDK constraint")
      [] issue.type = "outdated_dependencies" ->
            [fs |-> fs,
             result |-> IF tool = "missing"
                        THEN "Failed to update dependencies"
                        ELSE "Updated dependencies with 'flutter pub upgrade'"]
      [] issue.type = "vulnerable_dependency" ->
            [fs |-> fs, result |-> "Failed to update http"]
      [] issue.type = "sensitive_data_found" ->
            [fs |-> [fs EXCEPT !.project.dart =
                        CI_fix_sensitive_data_found(@)],
             result |-> "Removed sensitive data"]
      [] issue.type = "image_caching_missing" ->
            CI_pubspec_fix(fs, CI_fix_image_caching_missing,
                "Added cached_network_image to dependencies",
                "Failed to add image caching")
      [] issue.type = "heavy_dependency" ->
            [fs |-> fs,
             result |-> "Failed to add lazy loading recommendation"]
      [] OTHER -> [fs |-> fs, result |-> "None"]

\* The texts the except branches and the failure branches of the fixes
\* return (lines 463, 493, 521, 554, 585, 617, 648, 675, 712, 743, 770,
\* 787-789, 814, 843, 873, 907).
CI_failed(result) ==
    result \in {"Failed to fix timeout", "Failed to add caching",
                "Failed to add error handling",
                "Failed to add artifact upload", "Failed to add linting",
                "Failed to add test dependencies",
                "Failed to add build_runner", "Failed to create test files",
                "Failed to add SDK constraint",
                "Failed to update dependencies", "Failed to update http",
                "Failed to add image caching",
                "Failed to add lazy loading recommendation"}

\* The loop of apply_fixes stopped by the first fix that fails.
RECURSIVE CI_fix_from_mutant(_, _, _, _, _)
CI_fix_from_mutant(fs, issues, tool, k, applied) ==
    IF k > Len(issues) THEN [fs |-> fs, applied |-> applied]
    ELSE LET fix == CI_apply_fix_for_issue(fs, issues[k], tool)
         IN IF CI_failed(fix.result)
            THEN [fs |-> fix.fs,
                  applied |-> Append(applied,
                                     [issue |-> k, result |-> fix.result])]
            ELSE CI_fix_from_mutant(fix.fs, issues, tool, k + 1,
                    IF fix.result = "None" THEN applied
                    ELSE Append(applied, [issue |-> k, result |-> fix.result]))

\* The loop of apply_fixes (lines 390-393) over the issues from the k-th on:
\* the files after the fixes, and the texts the fixes returned with the
\* position of their issue in the report.
RECURSIVE CI_fix_from(_, _, _, _, _)
CI_fix_from(fs, issues, tool, k, applied) ==
    IF k > Len(issues) THEN [fs |-> fs, applied |-> applied]
    ELSE LET fix == CI_apply_fix_for_issue(fs, issues[k], tool)
         IN CI_fix_from(fix.fs, issues, tool, k + 1,
                IF fix.result = "None" THEN applied
                ELSE Append(applied, [issue |-> k, result |-> fix.result]))

\* The files of the project the fixes read and write.
CI_fs == [workflow |-> ci_workflow, project |-> ci_project]

\* __init__ (lines 17-27) over a project of the model.
CI_Init ==
    /\ ci_workflow_file \in
         IF app = "ci_cd_analyzer"
         THEN {CI_ci_yml, CI_build_yml, CI_deploy_yml, CI_workflows_dir}
         ELSE {CI_ci_yml}
    /\ ci_workflow \in
         IF app = "ci_cd_analyzer" /\ ci_workflow_file \in {CI_ci_yml, CI_build_yml}
         THEN CI_Workflows
         ELSE {<<>>}
    /\ IF app = "ci_cd_analyzer"
       THEN \E p \in CI_Projects :
                ci_project = [p EXCEPT !.other_ci_yml =
                    IF ci_workflow_file = CI_build_yml THEN @ ELSE Missing]
       ELSE ci_project = [pubspec |-> Missing, test |-> "missing",
                          integration_test |-> FALSE, dart |-> <<>>,
                          other_ci_yml |-> Missing]
    /\ ci_tool \in IF app = "ci_cd_analyzer" THEN CI_Tools ELSE {"missing"}
    /\ ci_issues = <<>>
    /\ ci_pc = "new"
    /\ ci_analyses = 0
    /\ ci_fixes = 0
    /\ ci_fix_result = "none"
    /\ ci_fixes_applied = <<>>
    /\ ci_report = "none"
    /\ ci_trail = "none"

CI_frame ==
    UNCHANGED <<app, gq_vars, log_vars, bm_vars, enh_vars, ctl_vars, ma_vars,
                ism_vars, gui_vars, bo_vars>>

\* analyze_ci_cd_failure (lines 29-48) on a path that does not exist: the
\* error value of line 36.
CI_analyze_not_found ==
    /\ app = "ci_cd_analyzer"
    /\ ci_analyses + ci_fixes < MaxAnalyses
    /\ ci_workflow_file = CI_deploy_yml
    /\ ci_analyses' = ci_analyses + 1
    /\ ci_pc' = "not_found"
    /\ UNCHANGED <<ci_workflow_file, ci_workflow, ci_project, ci_tool,
                   ci_issues, ci_fixes, ci_fix_result, ci_fixes_applied,
                   ci_trail>>
    /\ UNCHANGED ci_report
    /\ CI_frame

\* analyze_ci_cd_failure on the directory .github/workflows: exists() holds
\* and open (line 38) raises IsADirectoryError.
CI_analyze_directory ==
    /\ app = "ci_cd_analyzer"
    /\ ci_analyses + ci_fixes < MaxAnalyses
    /\ ci_workflow_file = CI_workflows_dir
    /\ ci_analyses' = ci_analyses + 1
    /\ ci_pc' = "IsADirectoryError"
    /\ UNCHANGED <<ci_workflow_file, ci_workflow, ci_project, ci_tool,
                   ci_issues, ci_fixes, ci_fix_result, ci_fixes_applied,
                   ci_trail>>
    /\ UNCHANGED ci_report
    /\ CI_frame

\* analyze_ci_cd_failure on a workflow file: every rule extends
\* self.analysis_report["issues"], the list of all the analyses of this
\* analyzer; the exception of analyze_performance_issues leaves the method
\* after the first five rules have done so.
CI_analyze_ci_cd_failure ==
    /\ app = "ci_cd_analyzer"
    /\ ci_analyses + ci_fixes < MaxAnalyses
    /\ ci_workflow_file \in {CI_ci_yml, CI_build_yml}
    /\ ci_analyses' = ci_analyses + 1
    /\ IF CI_performance_raises(ci_project)
       THEN /\ ci_issues' = ci_issues \o
                   CI_first_rules(ci_workflow, ci_project, ci_tool)
            /\ ci_pc' = "UnboundLocalError"
       ELSE /\ ci_issues' = ci_issues \o
                   CI_first_rules(ci_workflow, ci_project, ci_tool) \o
                   CI_analyze_performance_issues(ci_project)
            /\ ci_pc' = "analyzed"
    /\ ci_trail' =
         IF CI_performance_raises(ci_project) THEN ci_trail
         ELSE IF /\ ci_trail = "none"
                 /\ ~CI_in_workflow("timeout-minutes:", ci_workflow)
              THEN "reported"
         ELSE IF ci_trail = "fixed" THEN "reanalyzed"
         ELSE ci_trail
    /\ UNCHANGED <<ci_workflow_file, ci_workflow, ci_project, ci_tool,
                   ci_fixes, ci_fix_result, ci_fixes_applied>>
    /\ UNCHANGED ci_report
    /\ CI_frame

\* apply_fix_for_issue (lines 398-435) on the i-th issue of the report, a
\* timeout_missing issue: fix_timeout_missing (lines 437-463).  open raises
\* when the file of the issue is not a file of the project, and the method
\* returns the text of line 463.
CI_fix_timeout(i) ==
    /\ app = "ci_cd_analyzer"
    /\ ci_analyses + ci_fixes < MaxAnalyses
    /\ ci_issues[i].type = "timeout_missing"
    /\ ci_fixes' = ci_fixes + 1
    /\ LET fix == CI_apply_fix_for_issue(CI_fs, ci_issues[i], ci_tool)
       IN /\ ci_workflow' = fix.fs.workflow
          /\ ci_project' = fix.fs.project
          /\ ci_fix_result' = fix.result
    /\ ci_trail' = IF ci_trail = "reported" THEN "fixed" ELSE ci_trail
    /\ UNCHANGED <<ci_workflow_file, ci_tool, ci_issues, ci_pc,
                   ci_analyses, ci_fixes_applied>>
    /\ UNCHANGED ci_report
    /\ CI_frame

\* apply_fix_for_issue on a cache_missing issue: fix_cache_missing (lines
\* 465-493).
CI_fix_cache(i) ==
    /\ app = "ci_cd_analyzer"
    /\ ci_analyses + ci_fixes < MaxAnalyses
    /\ ci_issues[i].type = "cache_missing"
    /\ ci_fixes' = ci_fixes + 1
    /\ LET fix == CI_apply_fix_for_issue(CI_fs, ci_issues[i], ci_tool)
       IN /\ ci_workflow' = fix.fs.workflow
          /\ ci_project' = fix.fs.project
          /\ ci_fix_result' = fix.result
    /\ UNCHANGED <<ci_workflow_file, ci_tool, ci_issues, ci_pc,
                   ci_analyses, ci_fixes_applied, ci_trail>>
    /\ UNCHANGED ci_report
    /\ CI_frame

\* apply_fixes that drops the issues of the report once their fixes ran.
CI_apply_fixes_mutant ==
    /\ app = "ci_cd_analyzer"
    /\ ci_analyses + ci_fixes < MaxAnalyses
    /\ ci_fixes' = ci_fixes + 1
    /\ LET done == CI_fix_from(CI_fs, ci_issues, ci_tool, 1, <<>>)
       IN /\ ci_workflow' = done.fs.workflow
          /\ ci_project' = done.fs.project
          /\ ci_fixes_applied' = done.applied
    /\ ci_issues' = <<>>
    /\ ci_trail' =
         IF /\ ci_trail = "reported"
            /\ \E k \in 1..Len(ci_issues) : ci_issues[k].type = "timeout_missing"
         THEN "fixed" ELSE ci_trail
    /\ UNCHANGED <<ci_workflow_file, ci_tool, ci_pc, ci_analyses,
                   ci_fix_result>>
    /\ UNCHANGED ci_report
    /\ CI_frame

\* apply_fixes (lines 384-396): the fix of every issue of the report, in
\* the order of the report; the texts returned become
\* self.analysis_report["fixes_applied"].
CI_apply_fixes ==
    /\ app = "ci_cd_analyzer"
    /\ ci_analyses + ci_fixes < MaxAnalyses
    /\ ci_fixes' = ci_fixes + 1
    /\ LET done == CI_fix_from(CI_fs, ci_issues, ci_tool, 1, <<>>)
       IN /\ ci_workflow' = done.fs.workflow
          /\ ci_project' = done.fs.project
          /\ ci_fixes_applied' = done.applied
    /\ ci_trail' =
         IF /\ ci_trail = "reported"
            /\ \E k \in 1..Len(ci_issues) : ci_issues[k].type = "timeout_missing"
         THEN "fixed" ELSE ci_trail
    /\ UNCHANGED <<ci_workflow_file, ci_tool, ci_issues, ci_pc,
                   ci_analyses, ci_fix_result>>
    /\ UNCHANGED ci_report
    /\ CI_frame

\* A new CICDAnalyzer on the same project (lines 17-27).
CI_new_analyzer ==
    /\ app = "ci_cd_analyzer"
    /\ ci_pc # "new"
    /\ ci_pc' = "new"
    /\ ci_issues' = <<>>
    /\ ci_fixes_applied' = <<>>
    /\ UNCHANGED <<ci_workflow_file, ci_workflow, ci_project, ci_tool,
                   ci_analyses, ci_fixes, ci_fix_result, ci_trail>>
    /\ ci_report' = "none"
    /\ CI_frame

\* The keys generate_report reads from an issue with [] (lines 934, 936);
\* file is read with get.  Every issue of the rules has a description and
\* a fix, which the issues of the model leave out.
CI_report_keys == {"severity"}

\* generate_report (lines 919-952): the report is rendered, or the first
\* issue without one of the keys raises KeyError.
CI_generate_report ==
    /\ app = "ci_cd_analyzer"
    /\ ci_pc # "new"
    /\ ci_report' =
         IF \A k \in 1..Len(ci_issues) :
                CI_report_keys \subseteq DOMAIN ci_issues[k]
         THEN "rendered" ELSE "KeyError"
    /\ UNCHANGED <<ci_workflow_file, ci_workflow, ci_project, ci_tool,
                   ci_issues, ci_pc, ci_analyses, ci_fixes, ci_fix_result,
                   ci_fixes_applied, ci_trail>>
    /\ CI_frame

CI_Next ==
    \/ CI_analyze_not_found
    \/ CI_analyze_directory
    \/ CI_analyze_ci_cd_failure
    \/ \E i \in 1..Len(ci_issues) : CI_fix_timeout(i)
    \/ \E i \in 1..Len(ci_issues) : CI_fix_cache(i)
    \/ CI_apply_fixes
    \/ CI_generate_report
    \/ CI_new_analyzer

(***************************************************************************)
(* The applications together.                                              *)
(***************************************************************************)
Init ==
    /\ app \in Apps
    /\ BM_Init
    /\ ENH_Init
    /\ CTL_Init
    /\ MA_Init
    /\ ISM_Init
    /\ GUI_Init
    /\ BO_Init
    /\ CI_Init
    /\ GQ_Init
    /\ LOG_Init

Next ==
    \/ BM_Next
    \/ ENH_Next
    \/ CTL_Next
    \/ MA_Next
    \/ ISM_Next
    \/ GUI_Next
    \/ BO_Next
    \/ CI_Next
    \/ GQ_Next
    \/ LOG_Next

Spec == Init /\ [][Next]_vars

(***************************************************************************)
(* Properties.                                                             *)
(***************************************************************************)

\* C1. Single flight (BuildManager.run_command, EnhancedBuildManager
\* .start_build): while a run is in flight the busy flag a request tests is
\* set whenever a request can be made, so the request is rejected, and no
\* two runs are ever in flight on one runner.
C1_SingleFlight ==
    /\ Cardinality(BM_inflight) <= 1
    /\ BM_inflight # {} => bm_is_building
    /\ Cardinality(ENH_inflight) <= 1
    /\ (ENH_inflight # {} /\ enh_main = "idle") => enh_current_build

\* A request was rejected while a run was in flight.
C1_Witness ==
    /\ app = "build_manager"
    /\ bm_last = "busy"
    /\ BM_inflight # {}

\* The children of a runner that may still be running.
ENH_live ==
    Cardinality({r \in BuildIds : enh_proc[r] \in {"live", "terminated"}})
      + (IF enh_mainproc THEN 1 ELSE 0)

CTL_live == Cardinality({r \in RunIds : ctl_proc[r] = "live"})

GUI_live == Cardinality({r \in BuildIds : gui_proc[r] = "live"})

\* C2. At most one external process is live per runner instance in every
\* reachable state, whatever operations the caller issues.
C2_AtMostOneLiveProcess ==
    /\ ENH_live <= 1
    /\ CTL_live <= 1
    /\ GUI_live <= 1

\* C3. Reusability: once no run is in flight (and the caller is not inside
\* a request), the runner is idle, so that the next request is accepted.
C3_IdleAfterRun ==
    /\ BM_inflight = {} => ~bm_is_building
    /\ ((\A r \in BuildIds : enh_pc[r] \in {"none", "done"})
            /\ enh_main = "idle") => ~enh_current_build

\* C4. A run is recorded as succeeded exactly when its exit code is 0 and
\* none of its output lines was classified as an error.
C4_SucceededIffCleanExit ==
    /\ (ism_path = "completed") =>
          (ism_build_history[Len(ism_build_history)].success
             <=> (ism_call.return_code = 0
                    /\ \A i \in 1..Len(ism_call.output) :
                          ism_call.output[i] \notin ISM_error_lines))
    /\ gui_last.success
          <=> (gui_last.returncode = 0
                 /\ \A i \in 1..Len(gui_last.stdout_tags) :
                       gui_last.stdout_tags[i] # "error")

\* The fold over the retained history entries.
GUI_fold_successes(history) ==
    Cardinality({i \in 1..GUI_len(history) : GUI_entry(history, i).success})

\* C5. No drift: the stored metrics (total, succeeded, failed, average
\* duration) equal the values folded over the retained history entries.
C5_NoDrift ==
    LET n == GUI_fold_successes(gui_build_history)
        avg == gui_build_stats.average_build_time
    IN /\ gui_build_stats.total_builds = GUI_len(gui_build_history)
       /\ gui_build_stats.successful_builds = n
       /\ gui_build_stats.failed_builds = GUI_len(gui_build_history) - n
       /\ IF n = 0 THEN avg[1] = 0
          ELSE avg[1] * n = GUI_total_time(gui_build_history) * avg[2]

\* C6. Timeout: when the timeout of a run expires, the child is no longer
\* live after the run returns, the result is failed and the summary is the
\* timeout message.
C6_TimeoutTerminates ==
    (ma_path = "timeout") =>
        /\ ~ma_result.ok
        /\ ma_result.msg[1] = "Command timed out after "
        /\ ma_children = 0

\* C7. Cancellation: a child that was running when stop_operations was
\* invoked has received a termination request and its run is not reported
\* as succeeded.
C7_CancelTerminates ==
    \A r \in RunIds :
        ctl_cancelled[r] => (ctl_termreq[r] /\ ctl_result[r] # "success")

C9_ExactlyOneRecord ==
    /\ Len(ism_build_history) = ism_executions
    /\ \A r \in BuildIds : gui_pc[r] = "done" => gui_appended[r] = 1
    /\ \A r \in RunIds : bm_pc[r] \in {"finally", "done"} =>
          Cardinality({i \in 1..Len(bm_build_history) :
                          bm_build_history[i].run = r}) = 1

Severity == {"success", "warning", "error", "info"}

\* The tag a total classification by keywords gives a line: error when an
\* error keyword occurs, else warning when a warning keyword occurs, else
\* the default.
TagByKeywords(tag, has_error, has_warning, default) ==
    /\ has_error => tag = "error"
    /\ (~has_error /\ has_warning) => tag = "warning"
    /\ (~has_error /\ ~has_warning) => tag = default

\* The lines of stdout of the last child are tagged by their keywords.
StdoutTaggedByKeywords ==
    /\ Len(gui_last.stdout_tags) = Len(gui_last.stdout)
    /\ \A i \in 1..Len(gui_last.stdout) :
          /\ gui_last.stdout_tags[i] \in Severity
          /\ TagByKeywords(gui_last.stdout_tags[i],
                 GUI_has_error_word(LineTable[gui_last.stdout[i]]),
                 GUI_has_warn_word(LineTable[gui_last.stdout[i]]), "info")

\* analyze_code counts a line as an issue when it holds error:, else as a
\* warning when it holds warning:, else not at all.
AnalysisCountedByKeywords ==
    LET has(l, w) == Contains(Lower(LineTable[l]), w)
        out == enh_analysis.output
    IN /\ enh_analysis.issues =
            Cardinality({i \in 1..Len(out) :
                has(out[i], <<"e", "r", "r", "o", "r", ":">>)})
       /\ enh_analysis.warnings =
            Cardinality({i \in 1..Len(out) :
                /\ ~has(out[i], <<"e", "r", "r", "o", "r", ":">>)
                /\ has(out[i], <<"w", "a", "r", "n", "i", "n", "g", ":">>)})

Min(a, b) == IF a <= b THEN a ELSE b

\* C11. Retention bound: the history held in memory and the history held
\* in the file have at most Retention entries, and the history window
\* lists at most min(Shown, Retention) entries.
C11_RetentionBound ==
    /\ GUI_len(gui_build_history) <= Retention
    /\ GUI_len(gui_file.history) <= Retention
    /\ GUI_len(GUI_shown(gui_build_history)) <= Min(Shown, Retention)

\* The history of BuildManager only grows at its end.
BM_history_grows ==
    \/ bm_build_history' = bm_build_history
    \/ /\ Len(bm_build_history') = Len(bm_build_history) + 1
       /\ SubSeq(bm_build_history', 1, Len(bm_build_history))
             = bm_build_history

\* The history of the GUI application is left alone or grows by one entry
\* at its end.
GUI_history_grows ==
    \/ gui_build_history' = gui_build_history
    \/ /\ gui_build_history'.old = gui_build_history.old
       /\ Len(gui_build_history'.recent) = Len(gui_build_history.recent) + 1
       /\ SubSeq(gui_build_history'.recent, 1,
                 Len(gui_build_history.recent)) = gui_build_history.recent

\* Only the last Retention entries are kept.
GUI_history_evicted ==
    gui_build_history' = GUI_last_entries(gui_build_history, Retention)

SameFraction(a, b) == a[1] * b[2] = b[1] * a[2]

\* C13. The average duration is the sum of the durations of the succeeded
\* runs over their number, and a step that counts a failed run leaves the
\* average as it was.
C13_AverageOverSucceeded ==
    [][/\ (gui_build_stats'.failed_builds = gui_build_stats.failed_builds + 1)
            => SameFraction(gui_build_stats'.average_build_time,
                            gui_build_stats.average_build_time)
       /\ (gui_build_stats'.successful_builds
               = gui_build_stats.successful_builds + 1)
            => SameFraction(gui_build_stats'.average_build_time,
                   <<GUI_total_time(gui_build_history'),
                     GUI_fold_successes(gui_build_history')>>)
       /\ (enh_metrics'.failed_builds = enh_metrics.failed_builds + 1)
            => SameFraction(enh_metrics'.average_build_time,
                            enh_metrics.average_build_time)]_vars

\* C14. Observer ordering: the lines of a run are delivered (to the
\* callback, to the console log) in the order the child produced them,
\* stdout and stderr interleaved by arrival, each line once.
C14_ObserverOrdering ==
    /\ (ism_path = "completed") => ism_call.delivered = ism_call.output
    /\ gui_last.logged = gui_last.produced

C18_StatusDerivation ==
    (app = "build_optimizer_enhanced" /\ bo_pc = "generated") =>
        /\ ~bo_report.raised
        /\ bo_report.status =
             IF bo_results["error"] > 0 THEN "FAIL"
             ELSE IF bo_results["warning"] > 0 THEN "WARNING"
             ELSE "PASS"

\* The issues an analysis step added to the report.
CI_new_issues == SubSeq(ci_issues', Len(ci_issues) + 1, Len(ci_issues'))

\* The number of issues of a type in a sequence of issues.
CI_count(issues, type) ==
    Cardinality({k \in 1..Len(issues) : issues[k].type = type})

\* C16. When a rule fails because pubspec.yaml is missing, the analysis of a
\* workflow file still returns its report, the report gains exactly one issue
\* of severity error, and the issues of the other rules are in the report.
C16_RuleIsolation ==
    [][(/\ app = "ci_cd_analyzer"
        /\ ci_analyses' = ci_analyses + 1
        /\ ci_workflow_file \in {CI_ci_yml, CI_build_yml}
        /\ ci_project.pubspec = Missing)
       => /\ ci_pc' = "analyzed"
          /\ Cardinality({k \in 1..Len(CI_new_issues) :
                /\ "severity" \in DOMAIN CI_new_issues[k]
                /\ CI_new_issues[k].severity = "error"}) = 1
          /\ \A k \in 1..Len(CI_analyze_workflow_structure(ci_workflow)) :
                \E n \in 1..Len(CI_new_issues) :
                    CI_new_issues[n] =
                        CI_analyze_workflow_structure(ci_workflow)[k]]_vars

\* C17. The issues of a returned report are the issues of the workflow
\* structure, dependency, build, test, security and performance rules on the
\* analysed project, in that order, and nothing else.
C17_RegistrationOrder ==
    [][(/\ app = "ci_cd_analyzer"
        /\ ci_analyses' = ci_analyses + 1
        /\ ci_pc' = "analyzed")
       => ci_issues' = CI_analyze_workflow_structure(ci_workflow) \o
                       CI_analyze_dependency_issues(ci_project, ci_tool) \o
                       CI_analyze_build_issues(ci_project) \o
                       CI_analyze_test_issues(ci_project, ci_tool) \o
                       CI_analyze_security_issues(ci_project, ci_tool) \o
                       CI_analyze_performance_issues(ci_project)]_vars

\* C19. The first report on a workflow that declares no timeout holds exactly
\* one timeout_missing issue, and the report of an analysis made after the
\* fix of that issue was applied holds none.
C19_TimeoutFixed ==
    app = "ci_cd_analyzer" =>
        /\ (ci_trail = "reported" /\ ci_analyses = 1 /\ ci_pc = "analyzed")
              => CI_count(ci_issues, "timeout_missing") = 1
        /\ (ci_trail = "reanalyzed" /\ ci_pc = "analyzed")
              => CI_count(ci_issues, "timeout_missing") = 0

\* C20. Applying the timeout fix or the cache fix to a workflow it has
\* already fixed changes nothing.
C20_FixIdempotent ==
    app = "ci_cd_analyzer" =>
        /\ CI_fix_timeout_missing(CI_fix_timeout_missing(ci_workflow)) =
              CI_fix_timeout_missing(ci_workflow)
        /\ CI_fix_cache_missing(CI_fix_cache_missing(ci_workflow)) =
              CI_fix_cache_missing(ci_workflow)

\* The issue types that have a fix expected to resolve them.
CI_ResolvedTypes ==
    {"cache_missing", "error_handling_missing", "artifact_upload_missing",
     "sdk_constraint_missing", "linting_missing",
     "test_dependencies_missing", "sensitive_data_found",
     "image_caching_missing"}

\* C21. When apply_fixes has applied the fix of an issue without failure and
\* the same analyzer analyses the project again, the analysis reports no
\* issue of that type.
C21_FixResolves ==
    [][(/\ app = "ci_cd_analyzer"
        /\ ci_analyses' = ci_analyses + 1
        /\ ci_pc' = "analyzed")
       => \A n \in 1..Len(ci_fixes_applied) :
            (/\ ci_issues[ci_fixes_applied[n].issue].type \in CI_ResolvedTypes
             /\ ~CI_failed(ci_fixes_applied[n].result))
            => \A k \in 1..Len(CI_new_issues) :
                  CI_new_issues[k].type #
                      ci_issues[ci_fixes_applied[n].issue].type]_vars

\* C22. apply_fixes attempts the fix of every issue of the report that has
\* one, once and in the order of the report, whether or not an earlier fix
\* failed.
C22_FixesInReportOrder ==
    [][CI_apply_fixes =>
        /\ \A k \in 1..Len(ci_issues) :
              ci_issues[k].type \in CI_FixTypes <=>
                  \E n \in 1..Len(ci_fixes_applied') :
                      ci_fixes_applied'[n].issue = k
        /\ \A n, m \in 1..Len(ci_fixes_applied') :
              n < m => ci_fixes_applied'[n].issue < ci_fixes_applied'[m].issue
      ]_vars

\* apply_fixes has run over a report in which a fix failed and the fix of a
\* later issue was attempted.
C22_Witness ==
    /\ app = "ci_cd_analyzer"
    /\ \E n, m \in 1..Len(ci_fixes_applied) :
          /\ n < m
          /\ CI_failed(ci_fixes_applied[n].result)
          /\ ~CI_failed(ci_fixes_applied[m].result)

\* C23. A fix of a timeout_missing or cache_missing issue that reports it
\* was applied has changed a file of the project.
C23_AppliedMeansChanged ==
    [][(/\ \E i \in 1..Len(ci_issues) : CI_fix_timeout(i) \/ CI_fix_cache(i)
        /\ ~CI_failed(ci_fix_result'))
       => <<ci_workflow, ci_project>>' # <<ci_workflow, ci_project>>]_vars

\* C24. A fix of a workflow issue that fails leaves every file as it was,
\* and a fix of a workflow issue changes no file but the analysed workflow.
C24_Transactional ==
    [][(\E i \in 1..Len(ci_issues) : CI_fix_timeout(i) \/ CI_fix_cache(i))
       => /\ CI_failed(ci_fix_result') =>
                <<ci_workflow, ci_project>>' = <<ci_workflow, ci_project>>
          /\ ci_project' = ci_project]_vars

\* C25. A call of apply_fixes or of a single fix leaves the issues of the
\* report, and the outcome of the last analysis, as they were; the issues of
\* an analyzer change only when it analyses.
C25_NoReanalysis ==
    [][/\ ci_fixes' # ci_fixes =>
            /\ ci_issues' = ci_issues
            /\ ci_pc' = ci_pc
            /\ ci_analyses' = ci_analyses
       /\ (ci_issues' # ci_issues /\ ci_pc' # "new") =>
            ci_analyses' = ci_analyses + 1]_vars

\* apply_fixes has run on the report of one analysis and its fixes were
\* recorded, the report still holding its issues.
C25_Witness ==
    /\ app = "ci_cd_analyzer"
    /\ ci_analyses = 1
    /\ ci_pc = "analyzed"
    /\ ci_fixes_applied # <<>>
    /\ Len(ci_issues) >= Len(ci_fixes_applied)


\* A rate kept as the fraction <<n, d>> lies in [0, 100].
RateInRange(rate) == rate[1] >= 0 /\ rate[1] <= 100 * rate[2]

\* C26. In every reachable state the reported success rate lies in
\* [0, 100], and is 0 when no run has been recorded: succeeded <= total
\* after any sequence of recorded runs, runs recorded from overlapping
\* worker threads included.  Violated: MasterGUIApp.run_command_async starts
\* one thread per call, and two record_build_attempt calls that both read
\* total_builds before either writes it lose one increment of the total
\* while both successes are counted.
C26_RateInRange ==
    /\ gui_build_stats.successful_builds <= gui_build_stats.total_builds
    /\ RateInRange(GUI_calculate_success_rate(gui_build_stats))
    /\ gui_build_stats.total_builds = 0
          => GUI_calculate_success_rate(gui_build_stats)[1] = 0
    /\ enh_metrics.successful_builds <= enh_metrics.total_builds
    /\ RateInRange(ENH_success_rate(enh_metrics))
    /\ enh_metrics.total_builds = 0 => ENH_success_rate(enh_metrics)[1] = 0

\* C27. Failures are never swallowed: an operation built on command runs
\* (clean, build, run, test, analyze, format, upgrade) reports failure to
\* its caller whenever one of its command runs failed or timed out.
\* Violated: clean_project reads the results of its two commands only to
\* choose a log line and returns True.
C27_NoSwallowedFailure ==
    (/\ ma_choice \in MA_CommandChoices
     /\ ma_returned # "Exception"
     /\ \E i \in 1..Len(ma_runs) : ~MA_ok(ma_runs[i]))
        => MA_reports_failure(ma_returned)

\* C28. The menu loop of MasterApp.run keeps accepting choices after any
\* command outcome and after returning from the git and settings
\* sub-menus; it ends only on choice 12, a keyboard interrupt or an
\* unexpected exception.  Violated: a command that fails makes
\* handle_menu_choice return False, and choices 10 and 11 make it return
\* None; line 672 leaves the loop on both.
C28_LoopEndsOnlyOnExit ==
    [][(ma_loop = "menu" /\ ma_loop' = "exited")
         => \/ ma_choice' = "12"
            \/ ma_returned' \in {"KeyboardInterrupt", "Exception"}]_vars

\* The character c in the other letter case.
FlipCase(c) ==
    IF \E i \in 1..26 : UpperCase[i] = c
    THEN LowerCase[CHOOSE i \in 1..26 : UpperCase[i] = c]
    ELSE IF \E i \in 1..26 : LowerCase[i] = c
         THEN UpperCase[CHOOSE i \in 1..26 : LowerCase[i] = c]
         ELSE c

\* The line with the letter at position k in the other case.
FlipAt(line, k) ==
    SubSeq(line, 1, k - 1) \o <<FlipCase(line[k])>>
        \o SubSeq(line, k + 1, Len(line))

\* The output with the letter at position k of its line n in the other
\* case, classified as run_flutter_command lines 94 and 105 do.
ISM_success_flipped(output, return_code, n, k) ==
    ISM_success(return_code,
        \E i \in 1..Len(output) :
            ISM_line_has_error(IF i = n THEN FlipAt(LineTable[output[i]], k)
                               ELSE LineTable[output[i]]))

\* C29. Error detection on an output line is case-insensitive: two lines
\* that differ only in letter case get the same classification and lead
\* to the same run outcome.  Violated: BuildManager.run_flutter_command
\* of isuite_master_app.py tests the patterns of self.error_patterns on
\* the line as written.
C29_CaseInsensitive ==
    (ism_path = "completed") =>
        \A n \in 1..Len(ism_call.output) :
            LET line == LineTable[ism_call.output[n]]
            IN \A k \in 1..Len(line) :
                /\ ISM_line_has_error(FlipAt(line, k))
                      <=> ISM_line_has_error(line)
                /\ ISM_success_flipped(ism_call.output,
                                       ism_call.return_code, n, k)
                      <=> ism_result.ok

\* The rows list the last Min(Shown, len) entries of the history from the
\* one recorded last to the one recorded first; the entries of this
\* session differ in their timestamps, so the rows tell them apart.
GUI_most_recent_first(history) ==
    LET rows == GUI_rows(history)
        n == rows.old + Len(rows.recent)
    IN /\ n = Min(Shown, GUI_len(history))
       /\ \A i \in 1..n :
             GUI_row(rows, i) = GUI_entry(history, GUI_len(history) - i + 1)

\* kept holds the last Min(Retention, len) entries of the history, in the
\* order they have there.
GUI_oldest_dropped(history, kept) ==
    LET n == GUI_len(kept)
    IN /\ n = Min(Retention, GUI_len(history))
       /\ \A i \in 1..n :
             GUI_entry(kept, i) = GUI_entry(history, GUI_len(history) - n + i)

\* C30. A listing of recent runs presents the entries most recent first,
\* and when the history is truncated the entries dropped are exactly the
\* oldest ones: the entries kept are the most recent ones in their
\* original relative order.  Every state lists the history that way, and
\* every step that writes the history file writes it that way; the most
\* recent entry is the one recorded last.
C30_RecentFirstOldestDropped ==
    /\ []GUI_most_recent_first(gui_build_history)
    /\ [][gui_file' # gui_file
            => GUI_oldest_dropped(gui_build_history', gui_file'.history)]_vars

\* A history of more than Retention entries, two of them of this session,
\* was saved and is listed.
C30_Witness ==
    /\ app = "master_gui_app"
    /\ GUI_len(gui_build_history) > Retention
    /\ Len(gui_build_history.recent) >= 2
    /\ gui_build_history.recent[1].timestamp
          < gui_build_history.recent[2].timestamp
    /\ GUI_len(gui_file.history) = Retention
    /\ gui_file.history.recent = gui_build_history.recent

\* C31. Analysis is repeatable: the second of two analyses of the same
\* analyzer on artifacts no fix has changed returns the report the first
\* returned, and no issue of the first analysis is carried over into it.
\* Violated: every rule extends self.analysis_report["issues"], which is
\* created once in __init__, so the second report holds every issue twice.
C31_Repeatable ==
    [][(/\ app = "ci_cd_analyzer"
        /\ ci_pc = "analyzed"
        /\ ci_fixes = 0
        /\ ci_analyses' = ci_analyses + 1
        /\ ci_pc' = "analyzed")
       => ci_issues' = ci_issues]_vars

\* C32. Every issue a rule puts in a report carries a rule name (type), a
\* severity, a description and a fix suggestion, so rendering succeeds for
\* every reachable report.  Violated: the heavy_dependency issue of
\* analyze_performance_issues has the key "lazy" where the severity
\* belongs, and generate_report raises KeyError on it.
C32_IssuesComplete ==
    (ci_report # "none") =>
        /\ \A k \in 1..Len(ci_issues) :
              {"type", "severity"} \subseteq DOMAIN ci_issues[k]
        /\ ci_report = "rendered"

\* The sum of f[x] over the domain of f.
RECURSIVE SumOver(_, _)
SumOver(f, S) ==
    IF S = {} THEN 0
    ELSE LET x == CHOOSE y \in S : TRUE
         IN f[x] + SumOver(f, S \ {x})

\* No record_build_attempt call is between its first and its last line.
GUI_no_record_in_progress == \A r \in BuildIds : gui_pc[r] # "record"

\* C33. The per-target breakdown is consistent with the totals: after any
\* sequence of record, save, load and clear, the per-label totals add up to
\* the total of the metrics and the per-label succeeded counts to their
\* succeeded count.  Violated: save_build_history keeps the last 100
\* entries and all of the counters, and the breakdown is computed from the
\* entries.
C33_BreakdownConsistent ==
    GUI_no_record_in_progress =>
        LET stats == GUI_get_platform_stats(gui_build_history)
        IN /\ SumOver([p \in DOMAIN stats |-> stats[p].total], DOMAIN stats)
                = gui_build_stats.total_builds
           /\ SumOver([p \in DOMAIN stats |-> stats[p].successful],
                      DOMAIN stats)
                = gui_build_stats.successful_builds

\* C34. Each finished build is counted in exactly one of the succeeded and
\* failed counters: when no build of EnhancedBuildManager is under way,
\* total_builds = successful_builds + failed_builds, on every path through
\* _execute_build and monitor_build_process.  Violated: an exception raised
\* by the Tk calls that follow the count of a success reaches the handler
\* of _execute_build, which counts the same build failed.
C34_CountedOnce ==
    (\A r \in BuildIds : enh_pc[r] \in {"none", "done"})
        => enh_metrics.total_builds
             = enh_metrics.successful_builds + enh_metrics.failed_builds

\* No call on the queue is under way: the main thread is outside
\* add_to_queue and no worker runs a command or its callback.
GQ_quiescent ==
    /\ gq_pc[0] = "idle"
    /\ \A c \in BuildIds : gq_pc[c] \in {"none", "done"}

GQ_one_at_a_time ==
    Cardinality({c \in BuildIds : gq_pc[c] = "run"}) <= 1

\* The commands were handed to run_command_async in the order they were
\* added, each at most once.
GQ_in_order ==
    \A k \in 1..Len(gq_started) : gq_started[k] = k

\* C36. Queue order: queued commands are executed one at a time, in the
\* order they were added, the next one only after the previous one has
\* finished, and each command passed to add_to_queue is executed exactly
\* once.  Violated: on the object as __init__ leaves it add_to_queue raises
\* AttributeError and the command is executed zero times.
C36_InOrderExactlyOnce ==
    /\ GQ_one_at_a_time
    /\ GQ_in_order
    /\ GQ_quiescent => Len(gq_started) = gq_added

\* The lines of a, from the i-th on, occur in b from the j-th on, in the
\* same relative order.
RECURSIVE SubsequenceFrom(_, _, _, _)
SubsequenceFrom(a, i, b, j) ==
    IF i > Len(a) THEN TRUE
    ELSE IF j > Len(b) THEN FALSE
    ELSE IF a[i] = b[j] THEN SubsequenceFrom(a, i + 1, b, j + 1)
    ELSE SubsequenceFrom(a, i, b, j + 1)

\* C37. A fix only inserts lines: after any fix is applied, every line of
\* the original content of the workflow file, of pubspec.yaml and of the
\* Dart file is still present in the result, in the original relative
\* order.  Violated by fix_image_caching_missing (the dependencies: line is
\* not written back and the lines after it are replaced) and by
\* fix_sensitive_data_found (the line of the secret is rewritten).
C37_FixOnlyInserts ==
    [][ci_fixes' = ci_fixes + 1 =>
        /\ SubsequenceFrom(ci_workflow, 1, ci_workflow', 1)
        /\ SubsequenceFrom(ci_project.pubspec, 1, ci_project'.pubspec, 1)
        /\ SubsequenceFrom(ci_project.other_ci_yml, 1,
                           ci_project'.other_ci_yml, 1)
        /\ SubsequenceFrom(ci_project.dart, 1, ci_project'.dart, 1)]_vars

\* C38. Console log size limit: process_logs removes lines from the console
\* only when the console holds more than 1000 lines, a removal deletes the
\* first 99 lines only, and the lines of the message logged last are still
\* displayed.  Violated: line 395 compares the line number with '1000' as
\* strings, so "2" > "1000" holds after the first message and line 396
\* deletes everything the console holds, the new message included.
C38_ConsoleLimit ==
    /\ log_deleted # LOG_no_deletion =>
          /\ log_deleted.line > 1000
          /\ log_deleted.lines = 99
    /\ log_last.shown = log_last.size
=============================================================================
